---- MODULE Spec2Model ----
(***************************************************************************)
(* Padel tournament scheduler (src/src/App.tsx): the schedule generator,   *)
(* the score editor and the statistics helpers of the App component.       *)
(*                                                                         *)
(* Strings (player ids and names) are sequences of UTF-16 code units, so   *)
(* that trimming, lower-casing, comparison and concatenation are computed  *)
(* and not assumed.  trim and toLowerCase are those of Unicode 17 on any   *)
(* string; localeCompare is the order of the default locale of the host,   *)
(* one of HostLocales, on ASCII strings (the ids and names that reach a    *)
(* comparison are ASCII).                                                  *)
(* 32-bit words are pairs <<hi, lo>> of 16-bit halves; the average of the  *)
(* Duo summary is a double, held as exponent and 53-bit significand.       *)
(***************************************************************************)
EXTENDS Integers, Sequences, FiniteSets, TLC

\* players, seed, schedule, error: the state of the App component;
\* rankings, dmGames, dmSum: the values of the rankings, dmGames and dmSum
\* memos, ranked: whether they have been computed for the current schedule
\* and players;
\* rngState: the seed held by the closure of the last call of mulberry32;
\* lastGen, lastEdit: the last call of generateSchedule and of setScoreAuto;
\* search: the calls of backtrack in progress when buildBalancedDmOpponents
\* is followed call by call;
\* hostLocale: the default locale of the host that runs the code.
VARIABLES players, seed, schedule, error, rankings, dmGames, dmSum, ranked, rngState,
          lastGen, lastEdit, search, hostLocale

vars == <<players, seed, schedule, error, rankings, dmGames, dmSum, ranked, rngState,
          lastGen, lastEdit, search, hostLocale>>

----------------------------------------------------------------------------
(* Strings *)

Range(s) == {s[i] : i \in DOMAIN s}

Min2(a, b) == IF a < b THEN a ELSE b
Max2(a, b) == IF a > b THEN a ELSE b

Hyphen == <<45>>

\* the white space and line terminators removed by String.prototype.trim
WhiteSpace ==
  {9, 10, 11, 12, 13, 32, 160, 5760} \cup 8192..8202
    \cup {8232, 8233, 8239, 8287, 12288, 65279}

RECURSIVE TrimStart(_)
TrimStart(s) ==
  IF s # <<>> /\ Head(s) \in WhiteSpace THEN TrimStart(Tail(s)) ELSE s

RECURSIVE TrimEnd(_)
TrimEnd(s) ==
  IF s # <<>> /\ s[Len(s)] \in WhiteSpace
  THEN TrimEnd(SubSeq(s, 1, Len(s) - 1)) ELSE s

trim(s) == TrimEnd(TrimStart(s))

\* the code points of a string of code units: a high surrogate followed by a
\* low one is one code point, any other code unit stands for itself
RECURSIVE CodePoints(_)
CodePoints(s) ==
  IF s = <<>> THEN <<>>
  ELSE IF Len(s) >= 2 /\ s[1] \in 55296..56319 /\ s[2] \in 56320..57343
    THEN <<65536 + (s[1] - 55296) * 1024 + (s[2] - 56320)>>
           \o CodePoints(SubSeq(s, 3, Len(s)))
  ELSE <<s[1]>> \o CodePoints(Tail(s))

\* the lower-case mappings of the code points above 127 (Unicode 17), as
\* <<first, last, step, distance>>: every step-th code point from first to
\* last has its lower case at the given distance
LowerCase == {
    <<192, 214, 1, 32>>, <<216, 222, 1, 32>>, <<256, 302, 2, 1>>, <<306, 310, 2, 1>>,
    <<313, 327, 2, 1>>, <<330, 374, 2, 1>>, <<376, 376, 1, -121>>, <<377, 381, 2, 1>>,
    <<385, 385, 1, 210>>, <<386, 388, 2, 1>>, <<390, 390, 1, 206>>, <<391, 391, 1, 1>>,
    <<393, 394, 1, 205>>, <<395, 395, 1, 1>>, <<398, 398, 1, 79>>, <<399, 399, 1, 202>>,
    <<400, 400, 1, 203>>, <<401, 401, 1, 1>>, <<403, 403, 1, 205>>, <<404, 404, 1, 207>>,
    <<406, 406, 1, 211>>, <<407, 407, 1, 209>>, <<408, 408, 1, 1>>, <<412, 412, 1, 211>>,
    <<413, 413, 1, 213>>, <<415, 415, 1, 214>>, <<416, 420, 2, 1>>, <<422, 422, 1, 218>>,
    <<423, 423, 1, 1>>, <<425, 425, 1, 218>>, <<428, 428, 1, 1>>, <<430, 430, 1, 218>>,
    <<431, 431, 1, 1>>, <<433, 434, 1, 217>>, <<435, 437, 2, 1>>, <<439, 439, 1, 219>>,
    <<440, 440, 1, 1>>, <<444, 444, 1, 1>>, <<452, 452, 1, 2>>, <<453, 453, 1, 1>>,
    <<455, 455, 1, 2>>, <<456, 456, 1, 1>>, <<458, 458, 1, 2>>, <<459, 475, 2, 1>>,
    <<478, 494, 2, 1>>, <<497, 497, 1, 2>>, <<498, 500, 2, 1>>, <<502, 502, 1, -97>>,
    <<503, 503, 1, -56>>, <<504, 542, 2, 1>>, <<544, 544, 1, -130>>, <<546, 562, 2, 1>>,
    <<570, 570, 1, 10795>>, <<571, 571, 1, 1>>, <<573, 573, 1, -163>>, <<574, 574, 1, 10792>>,
    <<577, 577, 1, 1>>, <<579, 579, 1, -195>>, <<580, 580, 1, 69>>, <<581, 581, 1, 71>>,
    <<582, 590, 2, 1>>, <<880, 882, 2, 1>>, <<886, 886, 1, 1>>, <<895, 895, 1, 116>>,
    <<902, 902, 1, 38>>, <<904, 906, 1, 37>>, <<908, 908, 1, 64>>, <<910, 911, 1, 63>>,
    <<913, 929, 1, 32>>, <<931, 939, 1, 32>>, <<975, 975, 1, 8>>, <<984, 1006, 2, 1>>,
    <<1012, 1012, 1, -60>>, <<1015, 1015, 1, 1>>, <<1017, 1017, 1, -7>>, <<1018, 1018, 1, 1>>,
    <<1021, 1023, 1, -130>>, <<1024, 1039, 1, 80>>, <<1040, 1071, 1, 32>>, <<1120, 1152, 2, 1>>,
    <<1162, 1214, 2, 1>>, <<1216, 1216, 1, 15>>, <<1217, 1229, 2, 1>>, <<1232, 1326, 2, 1>>,
    <<1329, 1366, 1, 48>>, <<4256, 4293, 1, 7264>>, <<4295, 4295, 1, 7264>>, <<4301, 4301, 1, 7264>>,
    <<5024, 5103, 1, 38864>>, <<5104, 5109, 1, 8>>, <<7305, 7305, 1, 1>>, <<7312, 7354, 1, -3008>>,
    <<7357, 7359, 1, -3008>>, <<7680, 7828, 2, 1>>, <<7838, 7838, 1, -7615>>, <<7840, 7934, 2, 1>>,
    <<7944, 7951, 1, -8>>, <<7960, 7965, 1, -8>>, <<7976, 7983, 1, -8>>, <<7992, 7999, 1, -8>>,
    <<8008, 8013, 1, -8>>, <<8025, 8031, 2, -8>>, <<8040, 8047, 1, -8>>, <<8072, 8079, 1, -8>>,
    <<8088, 8095, 1, -8>>, <<8104, 8111, 1, -8>>, <<8120, 8121, 1, -8>>, <<8122, 8123, 1, -74>>,
    <<8124, 8124, 1, -9>>, <<8136, 8139, 1, -86>>, <<8140, 8140, 1, -9>>, <<8152, 8153, 1, -8>>,
    <<8154, 8155, 1, -100>>, <<8168, 8169, 1, -8>>, <<8170, 8171, 1, -112>>, <<8172, 8172, 1, -7>>,
    <<8184, 8185, 1, -128>>, <<8186, 8187, 1, -126>>, <<8188, 8188, 1, -9>>, <<8486, 8486, 1, -7517>>,
    <<8490, 8490, 1, -8383>>, <<8491, 8491, 1, -8262>>, <<8498, 8498, 1, 28>>, <<8544, 8559, 1, 16>>,
    <<8579, 8579, 1, 1>>, <<9398, 9423, 1, 26>>, <<11264, 11311, 1, 48>>, <<11360, 11360, 1, 1>>,
    <<11362, 11362, 1, -10743>>, <<11363, 11363, 1, -3814>>, <<11364, 11364, 1, -10727>>, <<11367, 11371, 2, 1>>,
    <<11373, 11373, 1, -10780>>, <<11374, 11374, 1, -10749>>, <<11375, 11375, 1, -10783>>, <<11376, 11376, 1, -10782>>,
    <<11378, 11378, 1, 1>>, <<11381, 11381, 1, 1>>, <<11390, 11391, 1, -10815>>, <<11392, 11490, 2, 1>>,
    <<11499, 11501, 2, 1>>, <<11506, 11506, 1, 1>>, <<42560, 42604, 2, 1>>, <<42624, 42650, 2, 1>>,
    <<42786, 42798, 2, 1>>, <<42802, 42862, 2, 1>>, <<42873, 42875, 2, 1>>, <<42877, 42877, 1, -35332>>,
    <<42878, 42886, 2, 1>>, <<42891, 42891, 1, 1>>, <<42893, 42893, 1, -42280>>, <<42896, 42898, 2, 1>>,
    <<42902, 42920, 2, 1>>, <<42922, 42922, 1, -42308>>, <<42923, 42923, 1, -42319>>, <<42924, 42924, 1, -42315>>,
    <<42925, 42925, 1, -42305>>, <<42926, 42926, 1, -42308>>, <<42928, 42928, 1, -42258>>, <<42929, 42929, 1, -42282>>,
    <<42930, 42930, 1, -42261>>, <<42931, 42931, 1, 928>>, <<42932, 42946, 2, 1>>, <<42948, 42948, 1, -48>>,
    <<42949, 42949, 1, -42307>>, <<42950, 42950, 1, -35384>>, <<42951, 42953, 2, 1>>, <<42955, 42955, 1, -42343>>,
    <<42956, 42970, 2, 1>>, <<42972, 42972, 1, -42561>>, <<42997, 42997, 1, 1>>, <<65313, 65338, 1, 32>>,
    <<66560, 66599, 1, 40>>, <<66736, 66771, 1, 40>>, <<66928, 66938, 1, 39>>, <<66940, 66954, 1, 39>>,
    <<66956, 66962, 1, 39>>, <<66964, 66965, 1, 39>>, <<68736, 68786, 1, 64>>, <<68944, 68965, 1, 32>>,
    <<71840, 71871, 1, 32>>, <<93760, 93791, 1, 32>>, <<93856, 93880, 1, 27>>, <<125184, 125217, 1, 34>> }

\* the cased code points that are not case-ignorable, as <<first, last>>
Cased == UNION { r[1]..r[2] : r \in {
    <<65, 90>>, <<97, 122>>, <<170, 170>>, <<181, 181>>, <<186, 186>>, <<192, 214>>,
    <<216, 246>>, <<248, 442>>, <<444, 447>>, <<452, 659>>, <<662, 687>>, <<880, 883>>,
    <<886, 887>>, <<891, 893>>, <<895, 895>>, <<902, 902>>, <<904, 906>>, <<908, 908>>,
    <<910, 929>>, <<931, 1013>>, <<1015, 1153>>, <<1162, 1327>>, <<1329, 1366>>, <<1376, 1416>>,
    <<4256, 4293>>, <<4295, 4295>>, <<4301, 4301>>, <<4304, 4346>>, <<4349, 4351>>, <<5024, 5109>>,
    <<5112, 5117>>, <<7296, 7306>>, <<7312, 7354>>, <<7357, 7359>>, <<7424, 7467>>, <<7531, 7543>>,
    <<7545, 7578>>, <<7680, 7957>>, <<7960, 7965>>, <<7968, 8005>>, <<8008, 8013>>, <<8016, 8023>>,
    <<8025, 8025>>, <<8027, 8027>>, <<8029, 8029>>, <<8031, 8061>>, <<8064, 8116>>, <<8118, 8124>>,
    <<8126, 8126>>, <<8130, 8132>>, <<8134, 8140>>, <<8144, 8147>>, <<8150, 8155>>, <<8160, 8172>>,
    <<8178, 8180>>, <<8182, 8188>>, <<8450, 8450>>, <<8455, 8455>>, <<8458, 8467>>, <<8469, 8469>>,
    <<8473, 8477>>, <<8484, 8484>>, <<8486, 8486>>, <<8488, 8488>>, <<8490, 8493>>, <<8495, 8500>>,
    <<8505, 8505>>, <<8508, 8511>>, <<8517, 8521>>, <<8526, 8526>>, <<8544, 8575>>, <<8579, 8580>>,
    <<9398, 9449>>, <<11264, 11387>>, <<11390, 11492>>, <<11499, 11502>>, <<11506, 11507>>, <<11520, 11557>>,
    <<11559, 11559>>, <<11565, 11565>>, <<42560, 42605>>, <<42624, 42651>>, <<42786, 42863>>, <<42865, 42887>>,
    <<42891, 42894>>, <<42896, 42972>>, <<42997, 42998>>, <<43002, 43002>>, <<43824, 43866>>, <<43872, 43880>>,
    <<43888, 43967>>, <<64256, 64262>>, <<64275, 64279>>, <<65313, 65338>>, <<65345, 65370>>, <<66560, 66639>>,
    <<66736, 66771>>, <<66776, 66811>>, <<66928, 66938>>, <<66940, 66954>>, <<66956, 66962>>, <<66964, 66965>>,
    <<66967, 66977>>, <<66979, 66993>>, <<66995, 67001>>, <<67003, 67004>>, <<68736, 68786>>, <<68800, 68850>>,
    <<68944, 68965>>, <<68976, 68997>>, <<71840, 71903>>, <<93760, 93823>>, <<93856, 93880>>, <<93883, 93907>>,
    <<119808, 119892>>, <<119894, 119964>>, <<119966, 119967>>, <<119970, 119970>>, <<119973, 119974>>, <<119977, 119980>>,
    <<119982, 119993>>, <<119995, 119995>>, <<119997, 120003>>, <<120005, 120069>>, <<120071, 120074>>, <<120077, 120084>>,
    <<120086, 120092>>, <<120094, 120121>>, <<120123, 120126>>, <<120128, 120132>>, <<120134, 120134>>, <<120138, 120144>>,
    <<120146, 120485>>, <<120488, 120512>>, <<120514, 120538>>, <<120540, 120570>>, <<120572, 120596>>, <<120598, 120628>>,
    <<120630, 120654>>, <<120656, 120686>>, <<120688, 120712>>, <<120714, 120744>>, <<120746, 120770>>, <<120772, 120779>>,
    <<122624, 122633>>, <<122635, 122654>>, <<122661, 122666>>, <<125184, 125251>>, <<127280, 127305>>, <<127312, 127337>>,
    <<127344, 127369>> } }

\* the case-ignorable code points, as <<first, last>>
CaseIgnorable == UNION { r[1]..r[2] : r \in {
    <<39, 39>>, <<46, 46>>, <<58, 58>>, <<94, 94>>, <<96, 96>>, <<168, 168>>,
    <<173, 173>>, <<175, 175>>, <<180, 180>>, <<183, 184>>, <<688, 879>>, <<884, 885>>,
    <<890, 890>>, <<900, 901>>, <<903, 903>>, <<1155, 1161>>, <<1369, 1369>>, <<1375, 1375>>,
    <<1425, 1469>>, <<1471, 1471>>, <<1473, 1474>>, <<1476, 1477>>, <<1479, 1479>>, <<1524, 1524>>,
    <<1536, 1541>>, <<1552, 1562>>, <<1564, 1564>>, <<1600, 1600>>, <<1611, 1631>>, <<1648, 1648>>,
    <<1750, 1757>>, <<1759, 1768>>, <<1770, 1773>>, <<1807, 1807>>, <<1809, 1809>>, <<1840, 1866>>,
    <<1958, 1968>>, <<2027, 2037>>, <<2042, 2042>>, <<2045, 2045>>, <<2070, 2093>>, <<2137, 2139>>,
    <<2184, 2184>>, <<2192, 2193>>, <<2199, 2207>>, <<2249, 2306>>, <<2362, 2362>>, <<2364, 2364>>,
    <<2369, 2376>>, <<2381, 2381>>, <<2385, 2391>>, <<2402, 2403>>, <<2417, 2417>>, <<2433, 2433>>,
    <<2492, 2492>>, <<2497, 2500>>, <<2509, 2509>>, <<2530, 2531>>, <<2558, 2558>>, <<2561, 2562>>,
    <<2620, 2620>>, <<2625, 2626>>, <<2631, 2632>>, <<2635, 2637>>, <<2641, 2641>>, <<2672, 2673>>,
    <<2677, 2677>>, <<2689, 2690>>, <<2748, 2748>>, <<2753, 2757>>, <<2759, 2760>>, <<2765, 2765>>,
    <<2786, 2787>>, <<2810, 2815>>, <<2817, 2817>>, <<2876, 2876>>, <<2879, 2879>>, <<2881, 2884>>,
    <<2893, 2893>>, <<2901, 2902>>, <<2914, 2915>>, <<2946, 2946>>, <<3008, 3008>>, <<3021, 3021>>,
    <<3072, 3072>>, <<3076, 3076>>, <<3132, 3132>>, <<3134, 3136>>, <<3142, 3144>>, <<3146, 3149>>,
    <<3157, 3158>>, <<3170, 3171>>, <<3201, 3201>>, <<3260, 3260>>, <<3263, 3263>>, <<3270, 3270>>,
    <<3276, 3277>>, <<3298, 3299>>, <<3328, 3329>>, <<3387, 3388>>, <<3393, 3396>>, <<3405, 3405>>,
    <<3426, 3427>>, <<3457, 3457>>, <<3530, 3530>>, <<3538, 3540>>, <<3542, 3542>>, <<3633, 3633>>,
    <<3636, 3642>>, <<3654, 3662>>, <<3761, 3761>>, <<3764, 3772>>, <<3782, 3782>>, <<3784, 3790>>,
    <<3864, 3865>>, <<3893, 3893>>, <<3895, 3895>>, <<3897, 3897>>, <<3953, 3966>>, <<3968, 3972>>,
    <<3974, 3975>>, <<3981, 3991>>, <<3993, 4028>>, <<4038, 4038>>, <<4141, 4144>>, <<4146, 4151>>,
    <<4153, 4154>>, <<4157, 4158>>, <<4184, 4185>>, <<4190, 4192>>, <<4209, 4212>>, <<4226, 4226>>,
    <<4229, 4230>>, <<4237, 4237>>, <<4253, 4253>>, <<4348, 4348>>, <<4957, 4959>>, <<5906, 5908>>,
    <<5938, 5939>>, <<5970, 5971>>, <<6002, 6003>>, <<6068, 6069>>, <<6071, 6077>>, <<6086, 6086>>,
    <<6089, 6099>>, <<6103, 6103>>, <<6109, 6109>>, <<6155, 6159>>, <<6211, 6211>>, <<6277, 6278>>,
    <<6313, 6313>>, <<6432, 6434>>, <<6439, 6440>>, <<6450, 6450>>, <<6457, 6459>>, <<6679, 6680>>,
    <<6683, 6683>>, <<6742, 6742>>, <<6744, 6750>>, <<6752, 6752>>, <<6754, 6754>>, <<6757, 6764>>,
    <<6771, 6780>>, <<6783, 6783>>, <<6823, 6823>>, <<6832, 6877>>, <<6880, 6891>>, <<6912, 6915>>,
    <<6964, 6964>>, <<6966, 6970>>, <<6972, 6972>>, <<6978, 6978>>, <<7019, 7027>>, <<7040, 7041>>,
    <<7074, 7077>>, <<7080, 7081>>, <<7083, 7085>>, <<7142, 7142>>, <<7144, 7145>>, <<7149, 7149>>,
    <<7151, 7153>>, <<7212, 7219>>, <<7222, 7223>>, <<7288, 7293>>, <<7376, 7378>>, <<7380, 7392>>,
    <<7394, 7400>>, <<7405, 7405>>, <<7412, 7412>>, <<7416, 7417>>, <<7468, 7530>>, <<7544, 7544>>,
    <<7579, 7679>>, <<8125, 8125>>, <<8127, 8129>>, <<8141, 8143>>, <<8157, 8159>>, <<8173, 8175>>,
    <<8189, 8190>>, <<8203, 8207>>, <<8216, 8217>>, <<8228, 8228>>, <<8231, 8231>>, <<8234, 8238>>,
    <<8288, 8292>>, <<8294, 8303>>, <<8305, 8305>>, <<8319, 8319>>, <<8336, 8348>>, <<8400, 8432>>,
    <<11388, 11389>>, <<11503, 11505>>, <<11631, 11631>>, <<11647, 11647>>, <<11744, 11775>>, <<11823, 11823>>,
    <<12293, 12293>>, <<12330, 12333>>, <<12337, 12341>>, <<12347, 12347>>, <<12441, 12446>>, <<12540, 12542>>,
    <<40981, 40981>>, <<42232, 42237>>, <<42508, 42508>>, <<42607, 42610>>, <<42612, 42621>>, <<42623, 42623>>,
    <<42652, 42655>>, <<42736, 42737>>, <<42752, 42785>>, <<42864, 42864>>, <<42888, 42890>>, <<42993, 42996>>,
    <<43000, 43001>>, <<43010, 43010>>, <<43014, 43014>>, <<43019, 43019>>, <<43045, 43046>>, <<43052, 43052>>,
    <<43204, 43205>>, <<43232, 43249>>, <<43263, 43263>>, <<43302, 43309>>, <<43335, 43345>>, <<43392, 43394>>,
    <<43443, 43443>>, <<43446, 43449>>, <<43452, 43453>>, <<43471, 43471>>, <<43493, 43494>>, <<43561, 43566>>,
    <<43569, 43570>>, <<43573, 43574>>, <<43587, 43587>>, <<43596, 43596>>, <<43632, 43632>>, <<43644, 43644>>,
    <<43696, 43696>>, <<43698, 43700>>, <<43703, 43704>>, <<43710, 43711>>, <<43713, 43713>>, <<43741, 43741>>,
    <<43756, 43757>>, <<43763, 43764>>, <<43766, 43766>>, <<43867, 43871>>, <<43881, 43883>>, <<44005, 44005>>,
    <<44008, 44008>>, <<44013, 44013>>, <<64286, 64286>>, <<64434, 64450>>, <<65024, 65039>>, <<65043, 65043>>,
    <<65056, 65071>>, <<65106, 65106>>, <<65109, 65109>>, <<65279, 65279>>, <<65287, 65287>>, <<65294, 65294>>,
    <<65306, 65306>>, <<65342, 65342>>, <<65344, 65344>>, <<65392, 65392>>, <<65438, 65439>>, <<65507, 65507>>,
    <<65529, 65531>>, <<66045, 66045>>, <<66272, 66272>>, <<66422, 66426>>, <<67456, 67461>>, <<67463, 67504>>,
    <<67506, 67514>>, <<68097, 68099>>, <<68101, 68102>>, <<68108, 68111>>, <<68152, 68154>>, <<68159, 68159>>,
    <<68325, 68326>>, <<68900, 68903>>, <<68942, 68942>>, <<68969, 68973>>, <<68975, 68975>>, <<69291, 69292>>,
    <<69317, 69317>>, <<69370, 69375>>, <<69446, 69456>>, <<69506, 69509>>, <<69633, 69633>>, <<69688, 69702>>,
    <<69744, 69744>>, <<69747, 69748>>, <<69759, 69761>>, <<69811, 69814>>, <<69817, 69818>>, <<69821, 69821>>,
    <<69826, 69826>>, <<69837, 69837>>, <<69888, 69890>>, <<69927, 69931>>, <<69933, 69940>>, <<70003, 70003>>,
    <<70016, 70017>>, <<70070, 70078>>, <<70089, 70092>>, <<70095, 70095>>, <<70191, 70193>>, <<70196, 70196>>,
    <<70198, 70199>>, <<70206, 70206>>, <<70209, 70209>>, <<70367, 70367>>, <<70371, 70378>>, <<70400, 70401>>,
    <<70459, 70460>>, <<70464, 70464>>, <<70502, 70508>>, <<70512, 70516>>, <<70587, 70592>>, <<70606, 70606>>,
    <<70608, 70608>>, <<70610, 70610>>, <<70625, 70626>>, <<70712, 70719>>, <<70722, 70724>>, <<70726, 70726>>,
    <<70750, 70750>>, <<70835, 70840>>, <<70842, 70842>>, <<70847, 70848>>, <<70850, 70851>>, <<71090, 71093>>,
    <<71100, 71101>>, <<71103, 71104>>, <<71132, 71133>>, <<71219, 71226>>, <<71229, 71229>>, <<71231, 71232>>,
    <<71339, 71339>>, <<71341, 71341>>, <<71344, 71349>>, <<71351, 71351>>, <<71453, 71453>>, <<71455, 71455>>,
    <<71458, 71461>>, <<71463, 71467>>, <<71727, 71735>>, <<71737, 71738>>, <<71995, 71996>>, <<71998, 71998>>,
    <<72003, 72003>>, <<72148, 72151>>, <<72154, 72155>>, <<72160, 72160>>, <<72193, 72202>>, <<72243, 72248>>,
    <<72251, 72254>>, <<72263, 72263>>, <<72273, 72278>>, <<72281, 72283>>, <<72330, 72342>>, <<72344, 72345>>,
    <<72544, 72544>>, <<72546, 72548>>, <<72550, 72550>>, <<72752, 72758>>, <<72760, 72765>>, <<72767, 72767>>,
    <<72850, 72871>>, <<72874, 72880>>, <<72882, 72883>>, <<72885, 72886>>, <<73009, 73014>>, <<73018, 73018>>,
    <<73020, 73021>>, <<73023, 73029>>, <<73031, 73031>>, <<73104, 73105>>, <<73109, 73109>>, <<73111, 73111>>,
    <<73177, 73177>>, <<73459, 73460>>, <<73472, 73473>>, <<73526, 73530>>, <<73536, 73536>>, <<73538, 73538>>,
    <<73562, 73562>>, <<78896, 78912>>, <<78919, 78933>>, <<90398, 90409>>, <<90413, 90415>>, <<92912, 92916>>,
    <<92976, 92982>>, <<92992, 92995>>, <<93504, 93506>>, <<93547, 93548>>, <<94031, 94031>>, <<94095, 94111>>,
    <<94176, 94177>>, <<94179, 94180>>, <<94194, 94195>>, <<110576, 110579>>, <<110581, 110587>>, <<110589, 110590>>,
    <<113821, 113822>>, <<113824, 113827>>, <<118528, 118573>>, <<118576, 118598>>, <<119143, 119145>>, <<119155, 119170>>,
    <<119173, 119179>>, <<119210, 119213>>, <<119362, 119364>>, <<121344, 121398>>, <<121403, 121452>>, <<121461, 121461>>,
    <<121476, 121476>>, <<121499, 121503>>, <<121505, 121519>>, <<122880, 122886>>, <<122888, 122904>>, <<122907, 122913>>,
    <<122915, 122916>>, <<122918, 122922>>, <<122928, 122989>>, <<123023, 123023>>, <<123184, 123197>>, <<123566, 123566>>,
    <<123628, 123631>>, <<124139, 124143>>, <<124398, 124399>>, <<124643, 124643>>, <<124646, 124646>>, <<124654, 124655>>,
    <<124661, 124661>>, <<124671, 124671>>, <<125136, 125142>>, <<125252, 125259>>, <<127995, 127999>>, <<917505, 917505>>,
    <<917536, 917631>>, <<917760, 917999>> } }

\* the code units of the lower case of the code point p[i]: capital sigma
\* becomes the final sigma after a cased letter and before none (case-ignorable
\* code points skipped on both sides), capital I with dot above becomes i and
\* a combining dot, every other code point follows the mappings
LowerPoint(p, i) ==
  LET FinalSigma ==
        /\ \E j \in 1..(i - 1) :
             p[j] \in Cased /\ \A k \in (j + 1)..(i - 1) : p[k] \in CaseIgnorable
        /\ ~\E j \in (i + 1)..Len(p) :
              p[j] \in Cased /\ \A k \in (i + 1)..(j - 1) : p[k] \in CaseIgnorable
      Hit == {r \in LowerCase : p[i] \in r[1]..r[2] /\ (p[i] - r[1]) % r[3] = 0}
      c == IF p[i] = 931 /\ FinalSigma THEN 962
           ELSE IF p[i] < 128 THEN (IF p[i] \in 65..90 THEN p[i] + 32 ELSE p[i])
           ELSE IF Hit = {} THEN p[i]
           ELSE p[i] + (CHOOSE r \in Hit : TRUE)[4]
  IN IF p[i] = 304 THEN <<105, 775>>
     ELSE IF c >= 65536
       THEN <<55296 + ((c - 65536) \div 1024), 56320 + ((c - 65536) % 1024)>>
     ELSE <<c>>

\* String.prototype.toLowerCase
toLowerCase(s) ==
  LET p == CodePoints(s)
      RECURSIVE LowerFrom(_)
      LowerFrom(i) == IF i > Len(p) THEN <<>> ELSE LowerPoint(p, i) \o LowerFrom(i + 1)
  IN LowerFrom(1)

\* s.trim().toLowerCase()  (line 35)
lower(s) == toLowerCase(trim(s))

\* "daniel" and "macho" as code units
StrDaniel == <<100, 97, 110, 105, 101, 108>>
StrMacho == <<109, 97, 99, 104, 111>>

\* /^(daniel|macho)$/.test(lower(name))  (line 36)
IsDuoName(name) == lower(name) \in {StrDaniel, StrMacho}

\* the first position at which a and b differ, or at which one of them ends
FirstDiff(a, b) ==
  CHOOSE i \in 1..(Min2(Len(a), Len(b)) + 1) :
    /\ i > Min2(Len(a), Len(b)) \/ a[i] # b[i]
    /\ \A j \in 1..(i - 1) : a[j] = b[j]

LessAt(a, b, i) ==
  IF i > Len(b) THEN FALSE
  ELSE IF i > Len(a) THEN TRUE
  ELSE a[i] < b[i]

\* the relational a < b of JavaScript on strings: code-unit lexicographic
StrLess(a, b) == LessAt(a, b, FirstDiff(a, b))

\* the default locales of the host that are modelled.  Lines 51 and 154 pass
\* no locale, so localeCompare orders by the default locale of the host, the
\* variable hostLocale, which the operators below take as loc.  Under en-US,
\* en-GB, es-ES, de-DE and fr-FR the order of ASCII strings is that of the
\* root collation of CLDR; hu-HU, da-DK, cs-CZ, lt-LT and tr-TR tailor it.
HostLocales ==
  {"en-US", "en-GB", "es-ES", "de-DE", "fr-FR", "hu-HU", "da-DK", "cs-CZ", "lt-LT", "tr-TR"}

\* the place of the ASCII code units in the root collation of CLDR: 0 for the
\* control characters, which the collation ignores, else the place in the
\* order of the code units that carry a weight (white space, punctuation,
\* symbols, '$', digits, letters), an upper-case letter at the place of its
\* lower case
RootWeight ==
  LET order ==
        << 9, 10, 11, 12, 13, 32,
           95, 45, 44, 59, 58, 33, 63, 46, 39, 34, 40, 41, 91, 93, 123, 125,
           64, 42, 47, 92, 38, 35, 37, 96, 94, 43, 60, 61, 62, 124, 126, 36,
           48, 49, 50, 51, 52, 53, 54, 55, 56, 57,
           97, 98, 99, 100, 101, 102, 103, 104, 105, 106, 107, 108, 109,
           110, 111, 112, 113, 114, 115, 116, 117, 118, 119, 120, 121, 122 >>
  IN [c \in 0..127 |->
        IF c \in (0..8) \cup (14..31) \cup {127} THEN 0
        ELSE CHOOSE i \in DOMAIN order :
               order[i] = (IF c \in 65..90 THEN c + 32 ELSE c)]

\* primary collation weight of a code unit on its own, with room for the
\* tailored letters between two places; the code units above 127 are outside
\* the strings compared here
PrimaryWeight(c) == 4 * RootWeight[c]

\* tertiary weight of a code unit on its own under the locale loc: lower case
\* before upper case, and upper case first under da-DK
TertiaryWeight(c, loc) ==
  IF loc = "da-DK" THEN (IF c \in 65..90 THEN 0 ELSE 1)
  ELSE (IF c \in 65..90 THEN 10 ELSE 0)

\* the tailorings of the locale loc on ASCII strings: str is sorted as the
\* collation elements ces, each <<primary, secondary, tertiary>>.  A row
\* <<str, c, p, s, ts>> places str at p after the code unit c, with the
\* secondary weight s and one element for each tertiary weight of ts.
\* cs-CZ: ch, a letter after h.  da-DK: aa, a letter after z, upper case
\* first.  lt-LT: y, an i with a secondary difference.  tr-TR: I, the upper
\* case of the dotless i, a letter before i.  hu-HU: cs, dz, dzs, gy, ly, ny,
\* sz, ty, zs, letters after c, d, dz, g, l, n, s, t, z, written in lower
\* case, with a capital or in capitals, and doubled with the first code unit
\* written twice (ccs, Ccs, CCS; CCs is C followed by Cs).
Tailoring(loc) ==
  LET HuLetters == { << <<99, 115>>, 1 >>, << <<100, 122>>, 1 >>, << <<100, 122, 115>>, 2 >>,
                     << <<103, 121>>, 1 >>, << <<108, 121>>, 1 >>, << <<110, 121>>, 1 >>,
                     << <<115, 122>>, 1 >>, << <<116, 121>>, 1 >>, << <<122, 115>>, 1 >> }
      \* the forms <<n, d, u, ts>> of the letter g: its code units with the
      \* first n in upper case, after d code units g[1] (in upper case when
      \* u = 1), and the tertiary weights of the elements: cs, ccs, Cs, Ccs,
      \* CS, CCS
      HuForms == { <<0, 0, 0, <<0>> >>, <<0, 1, 0, <<1, 0>> >>, <<1, 0, 0, <<2>> >>,
                   <<0, 1, 1, <<3, 0>> >>, <<3, 0, 0, <<4>> >>, <<3, 1, 1, <<5, 4>> >> }
      Form(g, n, d, u) ==
        [i \in 1..d |-> g[1] - 32 * u]
          \o [i \in DOMAIN g |-> IF i <= n THEN g[i] - 32 ELSE g[i]]
      rows ==
        CASE loc = "cs-CZ" ->
               { << <<99, 104>>, 104, 1, 0, <<0>> >>, << <<99, 72>>, 104, 1, 0, <<1>> >>,
                 << <<67, 104>>, 104, 1, 0, <<2>> >>, << <<67, 72>>, 104, 1, 0, <<3>> >> }
          [] loc = "da-DK" ->
               { << <<65, 65>>, 122, 1, 0, <<0>> >>, << <<65, 97>>, 122, 1, 0, <<1>> >>,
                 << <<97, 97>>, 122, 1, 0, <<2>> >> }
          [] loc = "lt-LT" ->
               { << <<121>>, 105, 0, 1, <<0>> >>, << <<89>>, 105, 0, 1, <<1>> >> }
          [] loc = "tr-TR" ->
               { << <<73>>, 105, -1, 0, <<1>> >> }
          [] loc = "hu-HU" ->
               { << Form(l[1], f[1], f[2], f[3]), l[1][1], l[2], 0, f[4] >> : l \in HuLetters, f \in HuForms }
          [] OTHER -> {}
  IN { [str |-> r[1],
        ces |-> [i \in DOMAIN r[5] |-> <<PrimaryWeight(r[2]) + r[3], r[4], r[5][i]>>]]
       : r \in rows }

\* the collation elements of s under the locale loc, t being the tailoring
\* of loc: at each place the longest tailored string that starts there, else
\* the code unit on its own; ignored code units give no element.  A string
\* that holds no tailored string gives the elements of its code units.  Else
\* x holds the place i reached and the elements ces so far; Run(x, n) takes
\* up to 2^n places from x, so that the places of a long string are not
\* nested one inside the other.
SortKey(s, loc) ==
  LET Key(t) ==
        LET StartsAt(e, i) == /\ i + Len(e.str) - 1 <= Len(s)
                              /\ SubSeq(s, i, i + Len(e.str) - 1) = e.str
            Weighted(u) == SelectSeq(u, LAMBDA c : PrimaryWeight(c) # 0)
            Units(u) == [i \in DOMAIN u |-> <<PrimaryWeight(u[i]), 0, TertiaryWeight(u[i], loc)>>]
            Element(x) ==
              LET hits == {e \in t : StartsAt(e, x.i)}
                  e == CHOOSE h \in hits : \A y \in hits : Len(y.str) <= Len(h.str)
              IN IF hits = {}
                 THEN [i |-> x.i + 1, ces |-> x.ces \o Units(Weighted(<<s[x.i]>>))]
                 ELSE [i |-> x.i + Len(e.str), ces |-> x.ces \o e.ces]
            RECURSIVE Run(_, _)
            Run(x, n) ==
              IF x.i > Len(s) THEN x
              ELSE IF n = 0 THEN Element(x)
              ELSE Run(Run(x, n - 1), n - 1)
            RECURSIVE Elements(_)
            Elements(x) == IF x.i > Len(s) THEN x.ces ELSE Elements(Run(x, 2))
        IN IF \A e \in t : \A i \in DOMAIN s : ~StartsAt(e, i)
           THEN Units(Weighted(s))
           ELSE Elements([i |-> 1, ces |-> <<>>])
  IN Key(Tailoring(loc))

\* lexicographic comparison of two sequences of weights
Compare(x, y) == IF x = y THEN 0 ELSE IF StrLess(x, y) THEN -1 ELSE 1

\* a.localeCompare(b) on ASCII strings, loc being the default locale of the
\* host: the first difference of the primary weights decides, else that of
\* the secondary, else that of the tertiary
localeCompare(a, b, loc) ==
  LET Levels(x, y) ==
        LET Level(l) == Compare([i \in DOMAIN x |-> x[i][l]], [i \in DOMAIN y |-> y[i][l]])
            differ == {l \in 1..3 : Level(l) # 0}
        IN IF differ = {} THEN 0 ELSE Level(CHOOSE l \in differ : \A k \in differ : l <= k)
  IN Levels(SortKey(a, loc), SortKey(b, loc))

\* pairKey (line 22)
pairKey(a, b) == IF StrLess(a, b) THEN a \o Hyphen \o b ELSE b \o Hyphen \o a

----------------------------------------------------------------------------
(* 32-bit arithmetic of mulberry32 on <<hi, lo>> halves *)

W16 == 65536

RECURSIVE XorBits(_, _, _)
XorBits(a, b, n) ==
  IF n = 0 THEN 0
  ELSE (((a % 2) + (b % 2)) % 2) + 2 * XorBits(a \div 2, b \div 2, n - 1)

RECURSIVE OrBits(_, _, _)
OrBits(a, b, n) ==
  IF n = 0 THEN 0
  ELSE Max2(a % 2, b % 2) + 2 * OrBits(a \div 2, b \div 2, n - 1)

\* the bitwise operators on 4-bit digits
XorNib == [a \in 0..15, b \in 0..15 |-> XorBits(a, b, 4)]
OrNib == [a \in 0..15, b \in 0..15 |-> OrBits(a, b, 4)]

\* a 16-bit operand digit by digit
Nib(t, a, b) ==
  t[a % 16, b % 16]
    + 16 * t[(a \div 16) % 16, (b \div 16) % 16]
    + 256 * t[(a \div 256) % 16, (b \div 256) % 16]
    + 4096 * t[a \div 4096, b \div 4096]

\* the 32-bit words.  The operations on them are functions, whose arguments
\* are values when the function is applied.
Word == (0..(W16 - 1)) \X (0..(W16 - 1))

Xor32 == [x \in Word, y \in Word |->
            <<Nib(XorNib, x[1], y[1]), Nib(XorNib, x[2], y[2])>>]
Or32 == [x \in Word, y \in Word |->
           <<Nib(OrNib, x[1], y[1]), Nib(OrNib, x[2], y[2])>>]

Pow2(n) == CASE n = 7 -> 128 [] n = 9 -> 512 [] n = 14 -> 16384
             [] n = 15 -> 32768 [] n = 2 -> 4 [] n = 1 -> 2

\* x >>> n for 0 < n < 16
Shr32 == [x \in Word, n \in 1..15 |->
            <<x[1] \div Pow2(n), (x[2] \div Pow2(n)) + (x[1] % Pow2(n)) * Pow2(16 - n)>>]

Add32 == [x \in Word, y \in Word |->
            <<(x[1] + y[1] + ((x[2] + y[2]) \div W16)) % W16, (x[2] + y[2]) % W16>>]

\* low 16 bits and carry of a 16x16 product, by 8-bit limbs of y
MulLo(x, y) == (x * (y % 256) + ((x * (y \div 256)) % 256) * 256) % W16
MulHi(x, y) ==
  ((x * (y % 256) + ((x * (y \div 256)) % 256) * 256) \div W16)
    + ((x * (y \div 256)) \div 256)

\* Math.imul(x, y): product modulo 2^32
imul == [x \in Word, y \in Word |->
           <<(MulHi(x[2], y[2]) + MulLo(x[1], y[2]) + MulLo(x[2], y[1])) % W16,
             MulLo(x[2], y[2])>>]

\* ToInt32/ToUint32 residue of an integer seed
ToWord(n) == <<(n \div W16) % W16, n % W16>>

\* 0x6d2b79f5
Golden == <<27947, 31221>>

\* mulberry32 (lines 14-21): one call of the returned closure.
\* st is the closure's seed (mod 2^32); the result carries the new seed and
\* the 32-bit numerator u of the returned fraction u / 4294967296.
\* line 17 from t = seed, line 18 and line 19 from the t before them
Mix17 == [t \in Word |-> imul[Xor32[t, Shr32[t, 15]], Or32[t, <<0, 1>>]]]
Mix18 == [t \in Word |->
            Xor32[t, Add32[t, imul[Xor32[t, Shr32[t, 7]], Or32[t, <<0, 61>>]]]]]
Mix19 == [t \in Word |-> Xor32[t, Shr32[t, 14]]]

Drawn == [s1 \in Word |-> [st |-> s1, u |-> Mix19[Mix18[Mix17[s1]]]]]

mulberry32(st) == Drawn[Add32[st, Golden]]

\* Math.floor(rng() * n) for 1 <= n <= 8, from the numerator u (line 9)
FloorMul(u, n) == (u[1] * n + ((u[2] * n) \div W16)) \div W16

----------------------------------------------------------------------------
(* Sequences *)

\* Array.prototype.filter with the test of membership in keep
FilterSeq(s, keep) == SelectSeq(s, LAMBDA x : x \in keep)

Swap(a, i, j) == [a EXCEPT ![i] = a[j], ![j] = a[i]]

\* the iteration i of the loop of line 8 on the array a, with the draw r of
\* rng() made in it (lines 9-10); i is the 0-based loop index
Swapped(a, i, r) ==
  [st |-> r.st, a |-> Swap(a, i + 1, FloorMul(r.u, i + 1) + 1)]

ShuffleStep(s, i) == Swapped(s.a, i, mulberry32(s.st))

\* shuffle (lines 6-13): Fisher-Yates from the last index down to 1.  s is
\* the copy a and the closure's seed after t iterations of the loop of line 8,
\* whose index is then a.length - 1 - t.
RECURSIVE ShuffleFrom(_, _)
ShuffleFrom(s, t) ==
  IF Len(s.a) - 1 - t <= 0 THEN s
  ELSE ShuffleFrom(ShuffleStep(s, Len(s.a) - 1 - t), t + 1)

shuffle(arr, st) == ShuffleFrom([a |-> arr, st |-> st], 0)

----------------------------------------------------------------------------
(* Schedule generator (lines 31-127) *)

NEED == 3
NumRounds == 15

ErrCount == "Requires exactly 12 players"
ErrDuo == "Two players must be named Daniel and Macho"
ErrOthers == "Exactly 10 players besides Daniel & Macho are required"
ErrBalance == "Could not balance Daniel & Macho opponents. Try another seed."
\* the message of line 121 in iteration r of the round loop
ErrRound(r) == "Internal round construction error at round " \o ToString(r + 1)
\* reading pp[i][0] when fewer than four pairs were built (lines 108-109)
ErrType == "TypeError"

\* the comparator of line 51
PoolCompare(a, b, counts, loc) ==
  IF counts[a] - counts[b] # 0 THEN counts[a] - counts[b] ELSE localeCompare(a, b, loc)

\* pool of line 51: ids by ascending count, then by localeCompare.
\* Array.prototype.sort is stable and the comparator is consistent, so the
\* result is that of the insertion sort SortSeq, which moves an element before
\* those it compares less than.
SortPool(ids, counts, loc) ==
  SortSeq(ids, LAMBDA a, b : PoolCompare(a, b, counts, loc) < 0)

RECURSIVE SumNeed(_, _)
SumNeed(ids, counts) ==
  IF ids = <<>> THEN 0
  ELSE Max2(0, NEED - counts[Head(ids)]) + SumNeed(Tail(ids), counts)

\* faulty variant of Feasible: the comparison strict
FeasibleStrict(ids, counts, k) ==
  SumNeed(ids, counts) < (NumRounds - (k + 1)) * 2

\* feasibility quick check of lines 68-70, after the pair was counted at slot k
Feasible(ids, counts, k) ==
  LET remainingSlots == (NumRounds - (k + 1)) * 2
      needTotal == SumNeed(ids, counts)
  IN needTotal <= remainingSlots

\* faulty variant of Chosen: the second player not counted
ChosenFirst(counts, a, b) == [counts EXCEPT ![a] = @ + 1]

\* counts after lines 62-63 for the pair (a, b)
Chosen(counts, a, b) == [[counts EXCEPT ![a] = @ + 1] EXCEPT ![b] = @ + 1]

\* the pool positions (i, j), 1-based, whose pair the loops of lines 52-72 do
\* not pass over: neither count has reached NEED, the pair key is unused, and
\* with the pair counted the slots left suffice
Eligible(ids, k, counts, usedPair, pool) ==
  {p \in (DOMAIN pool) \X (DOMAIN pool) :
     /\ p[1] < p[2]
     /\ counts[pool[p[1]]] < NEED
     /\ counts[pool[p[2]]] < NEED
     /\ pairKey(pool[p[1]], pool[p[2]]) \notin usedPair
     /\ Feasible(ids, Chosen(counts, pool[p[1]], pool[p[2]]), k)}

NoPair == <<0, 0>>

\* the loops visit the pairs by ascending i, then j
Earlier(p, q) == p[1] < q[1] \/ (p[1] = q[1] /\ p[2] <= q[2])

\* the first of the pairs ps that the loops reach from (i, j) on
FirstFrom(ps, i, j) ==
  IF \E p \in ps : Earlier(<<i, j>>, p)
  THEN CHOOSE p \in ps :
         /\ Earlier(<<i, j>>, p)
         /\ \A q \in ps : Earlier(<<i, j>>, q) => Earlier(p, q)
  ELSE NoPair

\* counts after line 77-78 for the pair (a, b)
Unchosen(counts, a, b) == [[counts EXCEPT ![a] = @ - 1] EXCEPT ![b] = @ - 1]

\* The calls of backtrack in progress are the record m.  k, counts, usedPair
\* and res are the closure's variables as the innermost call sees them (res
\* holds the pairs of slots 0..k-1), pool is its sorted copy of ids and (i, j)
\* are the 1-based positions at which its loops go on.  calls holds, for
\* every enclosing call waiting at line 72, its pool and the positions p of
\* the pair it chose.  done is set when the outermost call returns, ok is
\* what it returns.

\* entry of backtrack(k) (lines 49-51)
Enter(ids, k, counts, usedPair, res, calls, loc) ==
  [k |-> k, counts |-> counts, usedPair |-> usedPair, res |-> res,
   pool |-> IF k = NumRounds THEN <<>> ELSE SortPool(ids, counts, loc),
   i |-> 1, j |-> 2, calls |-> calls, done |-> FALSE, ok |-> FALSE]

\* faulty variant of Choose: the pair key not recorded
ChooseUnrecorded(ids, m, p, loc) ==
  Enter(ids, m.k + 1, Chosen(m.counts, m.pool[p[1]], m.pool[p[2]]),
        m.usedPair,
        Append(m.res, <<m.pool[p[1]], m.pool[p[2]]>>),
        Append(m.calls, [pool |-> m.pool, p |-> p]), loc)

\* choose (lines 62-65) the pair at the pool positions p, and the call of
\* line 72
Choose(ids, m, p, loc) ==
  Enter(ids, m.k + 1, Chosen(m.counts, m.pool[p[1]], m.pool[p[2]]),
        m.usedPair \cup {pairKey(m.pool[p[1]], m.pool[p[2]])},
        Append(m.res, <<m.pool[p[1]], m.pool[p[2]]>>),
        Append(m.calls, [pool |-> m.pool, p |-> p]), loc)

\* return false (line 81) to the enclosing call c, which undoes its pair
\* (lines 75-78) and goes on with its inner loop
Undo(m, c) ==
  [k |-> m.k - 1,
   counts |-> Unchosen(m.counts, c.pool[c.p[1]], c.pool[c.p[2]]),
   usedPair |-> m.usedPair \ {pairKey(c.pool[c.p[1]], c.pool[c.p[2]])},
   res |-> SubSeq(m.res, 1, Len(m.res) - 1),
   pool |-> c.pool, i |-> c.p[1], j |-> c.p[2] + 1,
   calls |-> SubSeq(m.calls, 1, Len(m.calls) - 1), done |-> FALSE, ok |-> FALSE]

\* the innermost call with p the next pair its loops do not pass over
Advance(ids, m, p, loc) ==
  IF p # NoPair THEN Choose(ids, m, p, loc)
  ELSE IF m.calls = <<>> THEN [m EXCEPT !.done = TRUE, !.ok = FALSE]
  ELSE Undo(m, m.calls[Len(m.calls)])

\* the innermost call up to its next call or return: return true at line 50,
\* which every enclosing call passes on at line 72, or the loops of lines 52-79
Step(ids, m, loc) ==
  IF m.k = NumRounds THEN [m EXCEPT !.done = TRUE, !.ok = TRUE]
  ELSE Advance(ids, m, FirstFrom(Eligible(ids, m.k, m.counts, m.usedPair, m.pool),
                                 m.i, m.j), loc)

\* backtrack (lines 49-82), from the calls in progress m to the return of the
\* outermost call.  Run(x, n) takes up to 2^n steps from x, so that the steps
\* of a long search are not nested one inside the other.
RECURSIVE backtrack(_, _, _)
backtrack(ids, m, loc) ==
  LET RECURSIVE Run(_, _)
      Run(x, n) ==
        IF x.done THEN x
        ELSE IF n = 0 THEN Step(ids, x, loc)
        ELSE Run(Run(x, n - 1), n - 1)
  IN IF m.done THEN m ELSE backtrack(ids, Run(m, 6), loc)

\* buildBalancedDmOpponents (lines 43-86): backtrack(0) on fresh counts,
\* usedPair and res
buildBalancedDmOpponents(ids, loc) ==
  backtrack(ids, Enter(ids, 0, [id \in Range(ids) |-> 0], {}, <<>>, <<>>, loc), loc)

\* the value undefined, read past the end of an array
Undefined == <<-1>>

At(arr, i) == IF i \in DOMAIN arr THEN arr[i] ELSE Undefined

\* the pairs pushed by the loop of line 94, from the 1-based position i on
RECURSIVE PairsFrom(_, _)
PairsFrom(arr, i) ==
  IF i > Len(arr) THEN <<>>
  ELSE << <<arr[i], At(arr, i + 1)>> >> \o PairsFrom(arr, i + 2)

\* pairRemaining (lines 91-96)
PairsOf(sh) == [out |-> PairsFrom(sh.a, 1), st |-> sh.st]

pairRemaining(eight, st) == PairsOf(shuffle(eight, st))

MatchIds(m) == <<m.team1.a, m.team1.b, m.team2.a, m.team2.b>>

\* the loop of line 118 over the ids of one match: each id is added to seen
\* until one is found there
RECURSIVE CheckIds(_, _)
CheckIds(ids, seen) ==
  IF ids = <<>> THEN [ok |-> TRUE, seen |-> seen]
  ELSE IF Head(ids) \in seen THEN [ok |-> FALSE, seen |-> seen]
  ELSE CheckIds(Tail(ids), seen \cup {Head(ids)})

\* the round self-check of lines 113-120: ok and the seen set after the loop
RECURSIVE CheckMatches(_, _)
CheckMatches(ms, seen) ==
  IF ms = <<>> THEN [ok |-> TRUE, seen |-> seen]
  ELSE LET ids == MatchIds(Head(ms)) IN
       IF Cardinality(Range(ids)) # 4 THEN [ok |-> FALSE, seen |-> seen]
       ELSE LET c == CheckIds(ids, seen) IN
            IF ~c.ok THEN c ELSE CheckMatches(Tail(ms), c.seen)

RoundOk(matches) ==
  LET c == CheckMatches(matches, {}) IN c.ok /\ Cardinality(c.seen) = 12

\* faulty variant of UsedIds: the second opponent left out
UsedIdsShort(D, M, dmOpp) == {D, M, dmOpp[1]}

\* the used set of line 101
UsedIds(D, M, dmOpp) == {D, M, dmOpp[1], dmOpp[2]}

\* the matches literal of lines 106-110 from the shuffled pairs pp
Matches(D, M, dmOpp, pp) ==
  LET P(x, y) == IF x \in DOMAIN pp THEN pp[x][y] ELSE Undefined IN
  << [court |-> 7, team1 |-> [a |-> D, b |-> M],
      team2 |-> [a |-> dmOpp[1], b |-> dmOpp[2]]],
     [court |-> 8, team1 |-> [a |-> P(1, 1), b |-> P(1, 2)],
      team2 |-> [a |-> P(2, 1), b |-> P(2, 2)]],
     [court |-> 9, team1 |-> [a |-> P(3, 1), b |-> P(3, 2)],
      team2 |-> [a |-> P(4, 1), b |-> P(4, 2)]] >>

\* rem of line 102
Remaining(D, M, others, dmOpp) ==
  FilterSeq(others, Range(others) \ UsedIds(D, M, dmOpp))

\* pp of line 104, with the closure's seed after it
ShufflePairs(pr) == shuffle(pr.out, pr.st)

Assemble(D, M, dmOpp, sh) ==
  [typeError |-> Len(sh.a) < 4, matches |-> Matches(D, M, dmOpp, sh.a), st |-> sh.st]

\* one iteration of the round loop (lines 100-110)
BuildRound(D, M, others, dmOpp, r, st) ==
  Assemble(D, M, dmOpp,
           ShufflePairs(pairRemaining(Remaining(D, M, others, dmOpp), st)))

\* faulty variant of DmOppOf: the index r dropped
DmOppFirst(dmOppPairs, r) == dmOppPairs[1]

\* dmOpp = dmOppPairs[r] (line 100); r is the 0-based round index
DmOppOf(dmOppPairs, r) == dmOppPairs[r + 1]

\* faulty variant of RoundNumber: the 0-based index itself
RoundNumberZeroBased(r) == r

\* the round number pushed at line 123
RoundNumber(r) == r + 1

\* lines 113-123 for the round b built in iteration r: the throw of line 121
\* (or the TypeError of reading pp[k][0] past the end of pp), or the push
Pushed(acc, r, b) ==
  IF b.typeError THEN [ok |-> FALSE, error |-> ErrType, st |-> b.st]
  ELSE IF ~RoundOk(b.matches)
    THEN [ok |-> FALSE, error |-> ErrRound(r), round |-> RoundNumber(r), st |-> b.st]
  ELSE [ok |-> TRUE, st |-> b.st,
        rounds |-> Append(acc.rounds, [round |-> RoundNumber(r), matches |-> b.matches])]

\* one iteration of the round loop on the rounds and the closure's seed acc
AddRound(D, M, others, dmOppPairs, r, acc) ==
  Pushed(acc, r, BuildRound(D, M, others, DmOppOf(dmOppPairs, r), r, acc.st))

\* the round loop (lines 98-124); r is the 0-based round index, acc the rounds
\* pushed so far with the closure's seed, or the throw that ended the loop
RECURSIVE BuildRounds(_, _, _, _, _, _)
BuildRounds(D, M, others, dmOppPairs, r, acc) ==
  IF r = NumRounds \/ ~acc.ok THEN acc
  ELSE BuildRounds(D, M, others, dmOppPairs, r + 1,
                   AddRound(D, M, others, dmOppPairs, r, acc))

\* rng = mulberry32(seed) (line 33): a fresh stream for every call
RngInit(s) == ToWord(s)

\* players.map((p) => p.id)
IdsIn(ps) == [i \in DOMAIN ps |-> ps[i].id]

\* ids of the players whose name matches the Duo rule (line 36)
DmIds(ps) == IdsIn(SelectSeq(ps, LAMBDA p : IsDuoName(p.name)))

\* faulty variant of DuoCountOk: more than two matching names accepted
DuoCountAtLeast(dmIds) == Len(dmIds) >= 2

\* the check of line 37
DuoCountOk(dmIds) == Len(dmIds) = 2

\* ids of the players other than D and M (line 39)
Others(ps, D, M) == IdsIn(SelectSeq(ps, LAMBDA p : p.id # D /\ p.id # M))

\* lines 88-126: the rounds from the balanced pairs, or the throw of line 84
WithPairs(D, M, others, st0, bal) ==
  IF ~bal.ok THEN [ok |-> FALSE, error |-> ErrBalance, st |-> st0]
  ELSE BuildRounds(D, M, others, bal.res, 0, [ok |-> TRUE, st |-> st0, rounds |-> <<>>])

\* lines 40-126
WithOthers(D, M, others, st0, loc) ==
  IF Len(others) # 10 THEN [ok |-> FALSE, error |-> ErrOthers, st |-> st0]
  ELSE WithPairs(D, M, others, st0, buildBalancedDmOpponents(others, loc))

\* lines 37-126
WithDuo(ps, st0, dmIds, loc) ==
  IF ~DuoCountOk(dmIds) THEN [ok |-> FALSE, error |-> ErrDuo, st |-> st0]
  ELSE WithOthers(dmIds[1], dmIds[2], Others(ps, dmIds[1], dmIds[2]), st0, loc)

\* generateSchedule (lines 31-127).  A throw is the record with ok = FALSE
\* and the message; a return is ok = TRUE with the rounds.  st is the seed
\* held by the rng closure when the call ends.
generateSchedule(ps, s, loc) ==
  IF Len(ps) # 12 THEN [ok |-> FALSE, error |-> ErrCount]
  ELSE WithDuo(ps, RngInit(s), DmIds(ps), loc)

----------------------------------------------------------------------------
(* Statistics (lines 132-156) *)

HasScore(m) == "score" \in DOMAIN m

\* faulty variant of ValidScore: the sum not checked
ValidScoreAny(m) == HasScore(m)

\* the filter of lines 141-143: a score is present and sums to 24
ValidScore(m) == HasScore(m) /\ m.score.team1 + m.score.team2 = 24

\* idToName.get(id) || id  (lines 133, 136): the last entry of an id wins,
\* an absent or empty name falls back to the id
NameOf(ps, id) ==
  LET idx == {i \in DOMAIN ps : ps[i].id = id} IN
  IF idx = {} THEN id
  ELSE LET n == ps[CHOOSE i \in idx : \A j \in idx : j <= i].name IN
       IF n = <<>> THEN id ELSE n

NewRow(ps, id) ==
  [player |-> id, name |-> NameOf(ps, id), played |-> 0, won |-> 0, tied |-> 0,
   lost |-> 0, pointsFor |-> 0, pointsAgainst |-> 0, diff |-> 0]

\* ensure (lines 135-138): the rows, with a row for id appended if missing
Ensure(rows, ps, id) ==
  IF \E i \in DOMAIN rows : rows[i].player = id THEN rows
  ELSE Append(rows, NewRow(ps, id))

RowIndex(rows, id) == CHOOSE i \in DOMAIN rows : rows[i].player = id

\* the updates of lines 146-150 for one player of a match: pf and pa are the
\* own and the opposing score
Add(rs, id, pf, pa) ==
  [rs EXCEPT ![RowIndex(rs, id)] =
     [@ EXCEPT !.played = @ + 1,
               !.pointsFor = @ + pf,
               !.pointsAgainst = @ + pa,
               !.won = @ + (IF pf > pa THEN 1 ELSE 0),
               !.lost = @ + (IF pf < pa THEN 1 ELSE 0),
               !.tied = @ + (IF pf = pa THEN 1 ELSE 0)]]

Credit(rows, ps, id, pf, pa) == Add(Ensure(rows, ps, id), id, pf, pa)

\* the matches in the order the loops of lines 139-140 visit them
RECURSIVE AllMatches(_)
AllMatches(sched) ==
  IF sched = <<>> THEN <<>>
  ELSE Head(sched).matches \o AllMatches(Tail(sched))

\* the matches that pass the two continue statements of lines 141-143
Counted(ms) == SelectSeq(ms, ValidScore)

\* lines 144-150 for one counted match
CountMatch(rows, ps, m) ==
  LET s1 == m.score.team1
      s2 == m.score.team2
  IN Credit(Credit(Credit(Credit(rows, ps, m.team1.a, s1, s2),
                          ps, m.team1.b, s1, s2),
                   ps, m.team2.a, s2, s1),
            ps, m.team2.b, s2, s1)

\* the rows after the counted matches ms, in order: the loop goes on from st,
\* the rows so far and the place i of the next match
CountMatches(ps, ms) ==
  LET RECURSIVE CountFrom(_)
      CountFrom(st) ==
        IF st.i > Len(ms) THEN st.rows
        ELSE CountFrom([rows |-> CountMatch(st.rows, ps, ms[st.i]), i |-> st.i + 1])
  IN CountFrom([rows |-> <<>>, i |-> 1])

\* the loops of lines 139-152
CountRounds(ps, sched) == CountMatches(ps, Counted(AllMatches(sched)))

\* line 153: diff filled in
WithDiff(rows) ==
  [i \in DOMAIN rows |-> [rows[i] EXCEPT !.diff = rows[i].pointsFor - rows[i].pointsAgainst]]

\* faulty variant of RowCompare: wins before points-for
RowCompareWonFirst(a, b, loc) ==
  IF b.won - a.won # 0 THEN b.won - a.won
  ELSE IF b.pointsFor - a.pointsFor # 0 THEN b.pointsFor - a.pointsFor
  ELSE IF b.diff - a.diff # 0 THEN b.diff - a.diff
  ELSE localeCompare(a.name, b.name, loc)

\* the comparator of line 154
RowCompare(a, b, loc) ==
  IF b.pointsFor - a.pointsFor # 0 THEN b.pointsFor - a.pointsFor
  ELSE IF b.won - a.won # 0 THEN b.won - a.won
  ELSE IF b.diff - a.diff # 0 THEN b.diff - a.diff
  ELSE localeCompare(a.name, b.name, loc)

\* line 154: a stable sort with a consistent comparator
SortRows(list, loc) == SortSeq(list, LAMBDA a, b : RowCompare(a, b, loc) < 0)

\* computeStats (lines 132-156)
computeStats(sched, ps, loc) == SortRows(WithDiff(CountRounds(ps, sched)), loc)

\* the rankings memo (line 243)
Rankings(sched, ps, loc) == IF Len(sched) # 0 THEN computeStats(sched, ps, loc) ELSE <<>>

----------------------------------------------------------------------------
(* Numbers with a fraction.  A non-negative double is the record of its     *)
(* exponent exp and its 53-bit significand mant, held as five limbs: the    *)
(* leading bit and four groups of 13 bits.  Its value is                    *)
(*   (mant[1] + mant[2]/2^13 + mant[3]/2^26 + mant[4]/2^39 + mant[5]/2^52)  *)
(*   * 2^exp, and 0 is the record Zero.                                     *)

Limb == 8192

Zero == [exp |-> 0, mant |-> <<0, 0, 0, 0, 0>>]

\* the e with 2^e <= x < 2^(e+1), for an integer x >= 1
RECURSIVE Log2(_)
Log2(x) == IF x < 2 THEN 0 ELSE 1 + Log2(x \div 2)

\* the limbs m plus one unit in the last place; the leading limb takes the
\* carry
Inc(m) ==
  LET c[i \in 2..6] == IF i = 6 THEN 1 ELSE (m[i] + c[i + 1]) \div Limb
  IN [i \in 1..5 |-> IF i = 1 THEN m[1] + c[2] ELSE (m[i] + c[i + 1]) % Limb]

\* round to nearest, ties to even: the limbs m, one more when the part cut
\* off (rem out of unit) is above a half, or is a half and m is odd
Rounded(m, rem, unit) ==
  IF 2 * rem > unit \/ (2 * rem = unit /\ m[5] % 2 = 1) THEN Inc(m) ELSE m

\* the limbs m, whose leading limb is s bits too long, cut by s bits and
\* rounded
Shifted(m, s) ==
  LET x[i \in 1..6] == IF i = 1 THEN 0 ELSE (x[i - 1] * Limb + m[i - 1]) % 2^s
  IN Rounded([i \in 1..5 |-> (x[i] * Limb + m[i]) \div 2^s], x[6], 2^s)

\* the double of the value m * 2^e, for limbs m with leading limb >= 1
RECURSIVE Normal(_, _)
Normal(e, m) ==
  IF m[1] = 1 THEN [exp |-> e, mant |-> m]
  ELSE Normal(e + Log2(m[1]), Shifted(m, Log2(m[1])))

\* the limbs of num / den, which is in [1, 2), rounded
Quotient(num, den) ==
  LET r[i \in 1..5] == IF i = 1 THEN num % den ELSE (r[i - 1] * Limb) % den
  IN Rounded([i \in 1..5 |-> IF i = 1 THEN num \div den ELSE (r[i - 1] * Limb) \div den],
             r[5], den)

\* p / n in double arithmetic, for integers p >= 0 and n >= 1
Divide(p, n) ==
  IF p = 0 THEN Zero
  ELSE IF p >= n
    THEN Normal(Log2(p \div n), Quotient(p, n * 2^Log2(p \div n)))
  ELSE LET s == CHOOSE t \in 1..30 : p * 2^t >= n /\ p * 2^(t - 1) < n
       IN Normal(-s, Quotient(p * 2^s, n))

\* x * n in double arithmetic, for a double x and an integer n >= 0
Times(x, n) ==
  IF x = Zero \/ n = 0 THEN Zero
  ELSE LET c[i \in 2..6] == IF i = 6 THEN 0 ELSE (x.mant[i] * n + c[i + 1]) \div Limb
       IN Normal(x.exp, [i \in 1..5 |-> IF i = 1 THEN x.mant[1] * n + c[2]
                                        ELSE (x.mant[i] * n + c[i + 1]) % Limb])

\* the integer p >= 0 as a double
Double(p) == Divide(p, 1)

----------------------------------------------------------------------------
(* The App component's initial state (lines 209-225) *)

\* decimal digits of 0 <= n < 100 as code units
DecStr(n) == IF n < 10 THEN <<48 + n>> ELSE <<48 + (n \div 10), 48 + (n % 10)>>

StrP == <<112>>
NameDaniel == <<68, 97, 110, 105, 101, 108>>
NameMacho == <<77, 97, 99, 104, 111>>
NamePlayer == <<80, 108, 97, 121, 101, 114, 32>>

\* useState of lines 209-222
DefaultPlayers ==
  [i \in 1..12 |->
     [id |-> StrP \o DecStr(i),
      name |-> IF i = 1 THEN NameDaniel
               ELSE IF i = 2 THEN NameMacho
               ELSE NamePlayer \o DecStr(i)]]

\* useState of line 223
DefaultSeed == 20251016

\* error state null (line 225)
Null == "null"

----------------------------------------------------------------------------
(* Duo statistics (lines 157-203) *)

\* hasDM (lines 163, 188) for the team t
hasDM(t, danielId, machoId) == danielId \in {t.a, t.b} /\ machoId \in {t.a, t.b}

\* the test of lines 164 and 189
IsDuoMatch(m, danielId, machoId) ==
  hasDM(m.team1, danielId, machoId) \/ hasDM(m.team2, danielId, machoId)

\* dmScore and oppScore (lines 172-173, 194-195)
dmScore(m, danielId, machoId) ==
  IF hasDM(m.team1, danielId, machoId) THEN m.score.team1 ELSE m.score.team2

oppScore(m, danielId, machoId) ==
  IF hasDM(m.team1, danielId, machoId) THEN m.score.team2 ELSE m.score.team1

\* players.find((p) => p.id === id)?.name || id  (line 166): the first entry
\* of an id, an absent or empty name falls back to the id
NameFound(ps, id) ==
  LET idx == {i \in DOMAIN ps : ps[i].id = id} IN
  IF idx = {} THEN id
  ELSE LET n == ps[CHOOSE i \in idx : \A j \in idx : i <= j].name IN
       IF n = <<>> THEN id ELSE n

\* oppNames of lines 165-166: the names of the team opposing the Duo, joined
\* by " & "
OppNames(ps, m, danielId, machoId) ==
  LET opp == IF hasDM(m.team1, danielId, machoId) THEN m.team2 ELSE m.team1
  IN NameFound(ps, opp.a) \o <<32, 38, 32>> \o NameFound(ps, opp.b)

\* the template of line 170, for scores that are integers in 0..99
ScoreString(sc) == DecStr(sc.team1) \o Hyphen \o DecStr(sc.team2)

\* result of line 174: "W", "L" or "T"
ResultLetter(m, danielId, machoId) ==
  IF dmScore(m, danielId, machoId) > oppScore(m, danielId, machoId) THEN <<87>>
  ELSE IF dmScore(m, danielId, machoId) < oppScore(m, danielId, machoId) THEN <<76>>
  ELSE <<84>>

\* the entry pushed at line 176 for the Duo match m of round r: score and
\* result stay undefined when the match has no score (line 168)
Game(r, m, danielId, machoId, ps) ==
  [round |-> r.round,
   oppNames |-> OppNames(ps, m, danielId, machoId),
   score |-> IF HasScore(m) THEN ScoreString(m.score) ELSE Undefined,
   result |-> IF HasScore(m) THEN ResultLetter(m, danielId, machoId) ELSE Undefined]

\* the entries of the matches of one round (lines 160-178)
RoundGames(r, danielId, machoId, ps) ==
  LET ms == SelectSeq(r.matches, LAMBDA m : IsDuoMatch(m, danielId, machoId))
  IN [k \in DOMAIN ms |-> Game(r, ms[k], danielId, machoId, ps)]

\* dmStats (lines 157-181)
RECURSIVE dmStats(_, _, _, _)
dmStats(sched, danielId, machoId, ps) ==
  IF sched = <<>> THEN <<>>
  ELSE RoundGames(Head(sched), danielId, machoId, ps)
         \o dmStats(Tail(sched), danielId, machoId, ps)

\* the matches that reach line 196: Duo matches with a score that sums to 24
DuoCounted(sched, danielId, machoId) ==
  SelectSeq(AllMatches(sched),
            LAMBDA m : IsDuoMatch(m, danielId, machoId) /\ ValidScore(m))

\* pointsFor after the matches ms (line 196)
RECURSIVE DuoPoints(_, _, _)
DuoPoints(ms, danielId, machoId) ==
  IF ms = <<>> THEN 0
  ELSE dmScore(Head(ms), danielId, machoId) + DuoPoints(Tail(ms), danielId, machoId)

\* faulty variant of Average: the quotient cut to an integer
AverageFloor(pointsFor, played) ==
  IF played # 0 THEN Double(pointsFor \div played) ELSE Zero

\* avg of line 201
Average(pointsFor, played) ==
  IF played # 0 THEN Divide(pointsFor, played) ELSE Zero

\* the counters of lines 196-197 over the counted matches ms, and line 201
Summary(ms, danielId, machoId) ==
  [played |-> Len(ms),
   won |-> Len(SelectSeq(ms, LAMBDA m : dmScore(m, danielId, machoId) > oppScore(m, danielId, machoId))),
   tied |-> Len(SelectSeq(ms, LAMBDA m : dmScore(m, danielId, machoId) = oppScore(m, danielId, machoId))),
   lost |-> Len(SelectSeq(ms, LAMBDA m : dmScore(m, danielId, machoId) < oppScore(m, danielId, machoId))),
   avg |-> Average(DuoPoints(ms, danielId, machoId), Len(ms))]

\* dmSummary (lines 182-203)
dmSummary(sched, danielId, machoId) ==
  Summary(DuoCounted(sched, danielId, machoId), danielId, machoId)

\* the dmIds memo (lines 227-231) is null
NoDmIds(ps) == Len(DmIds(ps)) # 2

\* the dmGames memo (lines 244-247)
DmGames(sched, ps) ==
  IF Len(sched) = 0 \/ NoDmIds(ps) THEN <<>>
  ELSE dmStats(sched, DmIds(ps)[1], DmIds(ps)[2], ps)

\* the value null of the dmSum memo
NoSummary == [null |-> TRUE]

\* the dmSum memo (lines 248-251)
DmSum(sched, ps) ==
  IF Len(sched) = 0 \/ NoDmIds(ps) THEN NoSummary
  ELSE dmSummary(sched, DmIds(ps)[1], DmIds(ps)[2])

\* the record of the calls of generateSchedule made so far: their number, the
\* arguments and the outcome of the last one (rounds returned or message
\* thrown)
NoGen == [n |-> 0, ok |-> FALSE, players |-> <<>>, seed |-> 0, rounds |-> <<>>,
          error |-> Null]

LogCall(g, ps, s) ==
  [n |-> lastGen.n + 1, ok |-> g.ok, players |-> ps, seed |-> s,
   rounds |-> IF g.ok THEN g.rounds ELSE <<>>,
   error |-> IF g.ok THEN Null ELSE g.error]

\* no call of buildBalancedDmOpponents is followed step by step
NoSearch == [ids |-> <<>>]

\* the record of the last call of setScoreAuto on the current schedule: its
\* arguments, whether the match had a score before it, the schedule passed
\* to the updater (before) and what the objects of that schedule hold when
\* the updater has returned (prev)
NoEdit == [roundIdx |-> -1, matchIdx |-> -1, value |-> 0, side |-> 0, scored |-> FALSE,
           before |-> <<>>, prev |-> <<>>]

----------------------------------------------------------------------------
(* Bounds of the model *)

\* calls of generateSchedule in one behaviour
MaxGens == 2

\* values typed into the seed field, and drawn by the dice button
TypedSeeds == {42}
RandomSeeds == {424242}

NamePedro == <<80, 101, 100, 114, 111>>
NameMachoPadded == <<32, 77, 65, 67, 72, 79, 32>>

\* (id, name) edits of the players panel
NameEdits == { <<StrP \o DecStr(2), NamePedro>>,
               <<StrP \o DecStr(2), NameMachoPadded>> }

\* (roundIdx, matchIdx) of the score fields edited, the values typed, the side
ScoreCells == { <<0, 0>> }
ScoreValues == {-3, 15, 30}
Sides == {1, 2}

----------------------------------------------------------------------------
(* The App component (lines 208-281, 466-497, 532-536) *)

\* the host locales of the runs of the App
AppLocales == {"en-US", "da-DK"}

Init ==
  /\ hostLocale \in AppLocales
  /\ players = DefaultPlayers
  /\ seed = DefaultSeed
  /\ schedule = <<>>
  /\ error = Null
  /\ rankings = <<>>
  /\ dmGames = <<>>
  /\ dmSum = NoSummary
  /\ ranked = TRUE
  /\ rngState = ToWord(0)
  /\ lastGen = NoGen
  /\ lastEdit = NoEdit
  /\ search = NoSearch

Mounted == lastGen.n > 0

\* the try/catch around generateSchedule(players, s) shared by the handlers,
\* run on a host of default locale loc: setSchedule(s) on a return,
\* setError(message) on a throw
Generate(s, clearError, loc) ==
  \E g \in {generateSchedule(players, s, loc)} :
    \E sched \in {IF g.ok THEN g.rounds ELSE schedule} :
      /\ schedule' = sched
      /\ error' = (IF g.ok THEN (IF clearError THEN Null ELSE error) ELSE g.error)
      /\ rankings' = Rankings(sched, players, loc)
      /\ dmGames' = DmGames(sched, players)
      /\ dmSum' = DmSum(sched, players)
      /\ rngState' = (IF "st" \in DOMAIN g THEN g.st ELSE rngState)
      /\ lastGen' = LogCall(g, players, s)
      /\ lastEdit' = (IF g.ok THEN NoEdit ELSE lastEdit)
      /\ hostLocale' = loc
      /\ UNCHANGED <<players, ranked, search>>

\* useEffect on mount (lines 234-241)
MountEffect ==
  /\ ~Mounted
  /\ Generate(seed, FALSE, hostLocale)
  /\ UNCHANGED seed

\* onGenerate (lines 272-281)
onGenerate ==
  /\ Mounted
  /\ lastGen.n < MaxGens
  /\ Generate(seed, TRUE, hostLocale)
  /\ UNCHANGED seed

\* onChange of the seed field (lines 471-480)
onSeedChange ==
  /\ Mounted
  /\ lastGen.n < MaxGens
  /\ \E newSeed \in TypedSeeds :
       /\ seed' = newSeed
       /\ Generate(newSeed, TRUE, hostLocale)

\* onClick of the dice button (lines 485-490)
onRandomSeed ==
  /\ Mounted
  /\ lastGen.n < MaxGens
  /\ \E newSeed \in RandomSeeds :
       /\ seed' = newSeed
       /\ Generate(newSeed, TRUE, hostLocale)

\* prev.map((p) => (p.id === id ? { ...p, name } : p))  (line 254)
Renamed(prev, id, name) ==
  [i \in DOMAIN prev |->
     IF prev[i].id = id THEN [prev[i] EXCEPT !.name = name] ELSE prev[i]]

\* updateName (lines 253-255)
updateName ==
  /\ Mounted
  /\ \E e \in NameEdits :
       \E ps \in {Renamed(players, e[1], e[2])} :
         /\ players' = ps
         /\ rankings' = Rankings(schedule, ps, hostLocale)
         /\ dmGames' = DmGames(schedule, ps)
         /\ dmSum' = DmSum(schedule, ps)
  /\ UNCHANGED <<seed, schedule, error, ranked, rngState, lastGen, lastEdit, search, hostLocale>>

\* faulty variant of Clamp: no upper limit
ClampLow(x) == Max2(0, x)

\* Math.max(0, Math.min(24, x))
Clamp(x) == Max2(0, Min2(24, x))

\* the other side of lines 263-264 (the values are finite)
OtherSide(value) == Clamp(24 - value)

\* faulty variant of NewScore: the other side keeps its previous score
NewScoreKeep(m, value, side) ==
  LET a0 == IF HasScore(m) THEN m.score.team1 ELSE 0
      b0 == IF HasScore(m) THEN m.score.team2 ELSE 0
  IN [team1 |-> Clamp(IF side = 1 THEN value ELSE a0),
      team2 |-> Clamp(IF side = 1 THEN b0 ELSE value)]

\* the score stored by setScoreAuto (lines 261-267) into the match m
NewScore(m, value, side) ==
  LET a0 == IF HasScore(m) THEN m.score.team1 ELSE 0
      b0 == IF HasScore(m) THEN m.score.team2 ELSE 0
      a1 == IF side = 1 THEN value ELSE OtherSide(value)
      b1 == IF side = 1 THEN OtherSide(value) ELSE value
  IN [team1 |-> Clamp(a1), team2 |-> Clamp(b1)]

WithScore(m, sc) ==
  [court |-> m.court, team1 |-> m.team1, team2 |-> m.team2, score |-> sc]

\* The updater of setScoreAuto works on objects.  An object is named by
\* <<g, kind, i, k>>: g is "prev" for the objects of the schedule passed in
\* and "copy" for those made by the updater, kind is "rounds" (the array),
\* "round", "matches" (the array of a round) or "match", i and k are the
\* 1-based positions of round and match (0 where there is none).  A heap maps
\* the objects to their contents, which name other objects.

\* the heap of the objects of the schedule prev
Stored(prev) ==
  [o \in {<<"prev", "rounds", 0, 0>>}
        \cup {<<"prev", "round", i, 0>> : i \in DOMAIN prev}
        \cup {<<"prev", "matches", i, 0>> : i \in DOMAIN prev}
        \cup UNION {{<<"prev", "match", i, k>> : k \in DOMAIN prev[i].matches} : i \in DOMAIN prev}
   |-> CASE o[2] = "rounds" -> [i \in DOMAIN prev |-> <<"prev", "round", i, 0>>]
         [] o[2] = "round" -> [round |-> prev[o[3]].round, matches |-> <<"prev", "matches", o[3], 0>>]
         [] o[2] = "matches" -> [k \in DOMAIN prev[o[3]].matches |-> <<"prev", "match", o[3], k>>]
         [] o[2] = "match" -> prev[o[3]].matches[o[4]]]

\* faulty variant of MatchCopy: the match object itself, not a copy
MatchShared(i, k) == <<"prev", "match", i, k>>

\* ({ ...m }) of line 259: a new object for the match k of round i
MatchCopy(i, k) == <<"copy", "match", i, k>>

\* line 259: the heap h with the array copy, whose rounds are new objects
\* with the fields of the rounds of prev and a new matches array of copies
\* of the matches
Copied(h) ==
  LET rounds == h[<<"prev", "rounds", 0, 0>>]
      matchesOf(i) == h[h[rounds[i]].matches]
      made == {<<"copy", "rounds", 0, 0>>}
                \cup {<<"copy", "round", i, 0>> : i \in DOMAIN rounds}
                \cup {<<"copy", "matches", i, 0>> : i \in DOMAIN rounds}
                \cup UNION {{MatchCopy(i, k) : k \in DOMAIN matchesOf(i)} : i \in DOMAIN rounds}
  IN [o \in DOMAIN h \cup made |->
        IF o \in DOMAIN h THEN h[o]
        ELSE CASE o[2] = "rounds" -> [i \in DOMAIN rounds |-> <<"copy", "round", i, 0>>]
               [] o[2] = "round" -> [h[rounds[o[3]]] EXCEPT !.matches = <<"copy", "matches", o[3], 0>>]
               [] o[2] = "matches" -> [k \in DOMAIN matchesOf(o[3]) |-> MatchCopy(o[3], k)]
               [] o[2] = "match" -> h[matchesOf(o[3])[o[4]]]]

\* lines 260-267: m = copy[roundIdx].matches[matchIdx] and the assignment of
\* a new score object to m.score
Assigned(h, roundIdx, matchIdx, value, side) ==
  LET m == h[h[h[<<"copy", "rounds", 0, 0>>][roundIdx + 1]].matches][matchIdx + 1]
  IN [h EXCEPT ![m] = WithScore(@, NewScore(@, value, side))]

\* the schedule that the array g ("prev" or "copy") holds in the heap h
Held(h, g) ==
  LET rounds == h[<<g, "rounds", 0, 0>>]
  IN [i \in DOMAIN rounds |->
        [round |-> h[rounds[i]].round,
         matches |-> [k \in DOMAIN h[h[rounds[i]].matches] |-> h[h[h[rounds[i]].matches][k]]]]]

\* the heap when the updater of setScoreAuto returns (lines 258-268)
Updated(prev, roundIdx, matchIdx, value, side) ==
  Assigned(Copied(Stored(prev)), roundIdx, matchIdx, value, side)

\* the schedule returned by the updater of setScoreAuto (lines 258-269)
ScoreUpdate(prev, roundIdx, matchIdx, value, side) ==
  Held(Updated(prev, roundIdx, matchIdx, value, side), "copy")

\* setScoreAuto (lines 257-270), called by the score fields of a rendered match
setScoreAuto(roundIdx, matchIdx, value, side) ==
  /\ roundIdx + 1 \in DOMAIN schedule
  /\ matchIdx + 1 \in DOMAIN schedule[roundIdx + 1].matches
  /\ \E h \in {Updated(schedule, roundIdx, matchIdx, value, side)} :
       \E sched \in {Held(h, "copy")} :
         /\ schedule' = sched
         /\ rankings' = Rankings(sched, players, hostLocale)
         /\ dmGames' = DmGames(sched, players)
         /\ dmSum' = DmSum(sched, players)
         /\ lastEdit' = [roundIdx |-> roundIdx, matchIdx |-> matchIdx, value |-> value,
                         side |-> side,
                         scored |-> HasScore(schedule[roundIdx + 1].matches[matchIdx + 1]),
                         before |-> schedule,
                         prev |-> Held(h, "prev")]
  /\ UNCHANGED <<players, seed, error, ranked, rngState, lastGen, search, hostLocale>>

\* onChange of the score fields (lines 532, 536)
onScoreChange ==
  \E c \in ScoreCells, v \in ScoreValues, sd \in Sides :
    setScoreAuto(c[1], c[2], v, sd)

Next ==
  \/ MountEffect
  \/ onGenerate
  \/ onSeedChange
  \/ onRandomSeed
  \/ updateName
  \/ onScoreChange

Spec == Init /\ [][Next]_vars

----------------------------------------------------------------------------
(* generateSchedule on its own: the arguments and the host locale are drawn *)
(* from GenRuns and the function is called up to MaxGens times on them.     *)

\* "a", "a-a", "a-a-a", ...: ids whose pair keys coincide
RECURSIVE ChainId(_)
ChainId(n) == IF n = 1 THEN <<97>> ELSE ChainId(n - 1) \o <<45, 97>>

DefaultIds == [i \in 1..12 |-> StrP \o DecStr(i)]
ChainIds == [i \in 1..12 |-> ChainId(i)]
\* "k7", "b", "10", "x-y", "x", "y", "q", "m2", "m10", "c", "0", "zz"
MixedIds == << <<107, 55>>, <<98>>, <<49, 48>>, <<120, 45, 121>>, <<120>>, <<121>>,
               <<113>>, <<109, 50>>, <<109, 49, 48>>, <<99>>, <<48>>, <<122, 122>> >>

GenIdLists == {DefaultIds, ChainIds, MixedIds}

NameDanielPadded == <<32, 100, 97, 110, 105, 101, 108, 32>>
NameMachoUpper == <<77, 65, 67, 72, 79>>
NameDaniela == NameDaniel \o <<97>>
\* "Daniel" after a no-break space, "MACHO" before a byte order mark, and
\* "Daniel" written with a capital I with dot above
NameDanielNoBreak == <<160>> \o NameDaniel
NameMachoMarked == NameMachoUpper \o <<65279>>
NameDanielDotted == <<68, 97, 110, 304, 101, 108>>

\* the names that differ from "Player i", as (position, name)
PatDefault == { <<1, NameDaniel>>, <<2, NameMacho>> }
PatPadded == { <<5, NameDanielPadded>>, <<9, NameMachoUpper>> }
PatReversed == { <<1, NameMacho>>, <<12, NameDaniel>> }
PatTwoDaniels == { <<1, NameDaniel>>, <<2, NameDaniel>> }
PatTwoMachos == { <<3, NameMacho>>, <<4, StrMacho>> }
PatOne == { <<1, NameDaniel>> }
PatThree == { <<1, NameDaniel>>, <<2, NameMacho>>, <<3, StrDaniel>> }
PatNone == {}
PatNearMiss == { <<1, NameDaniela>>, <<2, NameMacho>> }
PatNoBreak == { <<5, NameDanielNoBreak>>, <<9, NameMachoMarked>> }
PatDotted == { <<1, NameDanielDotted>>, <<2, NameMacho>> }

GenPatterns == {PatDefault, PatPadded, PatReversed, PatTwoDaniels, PatTwoMachos,
                PatOne, PatThree, PatNone, PatNearMiss, PatNoBreak, PatDotted}

Named(ids, pat) ==
  [i \in DOMAIN ids |->
     [id |-> ids[i],
      name |-> IF \E e \in pat : e[1] = i
               THEN (CHOOSE e \in pat : e[1] = i)[2]
               ELSE NamePlayer \o DecStr(i)]]

\* a thirteenth player
ExtraPlayer == [id |-> StrP \o DecStr(13), name |-> NamePlayer \o DecStr(13)]

\* twelve players, the third with the id of the first
DupDuo == [DefaultPlayers EXCEPT ![3].id = StrP \o DecStr(1)]

\* twelve players, Daniel and Macho with the same id
SameIdDuo == [DefaultPlayers EXCEPT ![2].id = StrP \o DecStr(1)]

GenOddLists == { <<>>, SubSeq(DefaultPlayers, 1, 11), Append(DefaultPlayers, ExtraPlayer),
                 SubSeq(Named(DefaultIds, PatOne), 1, 11), DupDuo, SameIdDuo }

GenSeeds == {-7, 42, DefaultSeed}

GenInputs ==
  ({Named(ids, pat) : ids \in GenIdLists, pat \in GenPatterns} \X GenSeeds)
    \cup (GenOddLists \X {DefaultSeed})

\* "a", "A", "aa", "b", "ch", "d", "i", "I", "j", "y", "cs", "cz": ids that the
\* locales of HostLocales order in different ways
LocaleIds == << <<97>>, <<65>>, <<97, 97>>, <<98>>, <<99, 104>>, <<100>>, <<105>>, <<73>>,
                <<106>>, <<121>>, <<99, 115>>, <<99, 122>> >>

\* the calls as <<input, host locale>>: every input under en-US, and the ids
\* of LocaleIds under every locale
GenRuns ==
  (GenInputs \X {"en-US"})
    \cup ({<<Named(LocaleIds, PatDefault), DefaultSeed>>} \X HostLocales)

InitGen ==
  /\ \E run \in GenRuns :
       /\ hostLocale = run[2]
       /\ players = run[1][1]
       /\ seed = run[1][2]
  /\ schedule = <<>>
  /\ error = Null
  /\ rankings = <<>>
  /\ dmGames = <<>>
  /\ dmSum = NoSummary
  /\ ranked = TRUE
  /\ rngState = ToWord(0)
  /\ lastGen = NoGen
  /\ lastEdit = NoEdit
  /\ search = NoSearch

\* generateSchedule(players, seed) inside a try/catch, as in onGenerate
CallGenerate ==
  /\ lastGen.n < MaxGens
  /\ Generate(seed, TRUE, hostLocale)
  /\ UNCHANGED seed

\* the same call made on a host with another default locale: the page opened
\* in another browser with the same player list and seed
CallElsewhere ==
  /\ lastGen.n \in 1..(MaxGens - 1)
  /\ \E loc \in AppLocales \ {hostLocale} : Generate(seed, TRUE, loc)
  /\ UNCHANGED seed

NextGen == CallGenerate \/ CallElsewhere

SpecGen == InitGen /\ [][NextGen]_vars

----------------------------------------------------------------------------
(* The statistics helpers on their own: the schedule is the one generated   *)
(* for the default players under the host locale, with scores attached to   *)
(* the matches of StatsCells or of DuoRunCells.                             *)

BaseSchedule == [loc \in HostLocales |-> generateSchedule(DefaultPlayers, DefaultSeed, loc).rounds]

\* NoScore, or the two sides of a recorded score
NoScore == <<>>
StatsScores == {NoScore, <<15, 9>>, <<9, 15>>, <<12, 12>>, <<10, 10>>, <<24, 0>>, <<20, 10>>}

\* (round, match) positions, 1-based: court 7 and court 8 of round 1, court 7
\* of round 2
StatsCells == { <<1, 1>>, <<1, 2>>, <<2, 1>> }

Attach(m, sc) ==
  IF sc = NoScore THEN m ELSE WithScore(m, [team1 |-> sc[1], team2 |-> sc[2]])

Scored(sched, f) ==
  [r \in DOMAIN sched |->
     [sched[r] EXCEPT !.matches =
        [k \in DOMAIN sched[r].matches |->
           IF <<r, k>> \in DOMAIN f THEN Attach(sched[r].matches[k], f[<<r, k>>])
           ELSE sched[r].matches[k]]]]

\* court 7 of the first rounds, and the scores they take together
DuoRun == 7
DuoRunCells == { <<r, 1>> : r \in 1..DuoRun }
DuoRunScores == { <<4, 20>>, <<5, 19>> }

\* the default players, and the players after Macho was renamed and the name
\* given to p3: the Duo of the panels is then p1 and p3
SplitDuo == [DefaultPlayers EXCEPT ![2].name = NamePedro, ![3].name = NameMacho]
\* the players after the team mates p10 and p11 of round 1 were named "O'Neil"
\* and "O-Neil": the order of the collation is not the one of the code units
NameApostrophe == <<79, 39, 78, 101, 105, 108>>
NameHyphen == <<79, 45, 78, 101, 105, 108>>
Punctuated == [DefaultPlayers EXCEPT ![10].name = NameApostrophe, ![11].name = NameHyphen]
\* the players after Daniel was renamed: one Duo name is left
LoneMacho == [DefaultPlayers EXCEPT ![1].name = NamePedro]
StatsPlayers == {DefaultPlayers, SplitDuo, Punctuated, LoneMacho}
\* "aa" and "b", "ch" and "d", "y" and "j", "i" and "I", "cs" and "cz": pairs
\* of names that the locales of HostLocales order in different ways
LocalePairs == { << <<97, 97>>, <<98>> >>, << <<99, 104>>, <<100>> >>, << <<121>>, <<106>> >>,
                 << <<105>>, <<73>> >>, << <<99, 115>>, <<99, 122>> >> }
\* the players after the team mates p10 and p11 of round 1 were named pr
LocaleNamed(pr) == [DefaultPlayers EXCEPT ![10].name = pr[1], ![11].name = pr[2]]
\* the host locales of the statistics: en-US, and those that tailor the order
StatsLocales == {loc \in HostLocales : loc = "en-US" \/ Tailoring(loc) # {}}
\* the player lists as <<players, host locale>>
StatsRuns ==
  (StatsPlayers \X {"en-US"}) \cup ({LocaleNamed(pr) : pr \in LocalePairs} \X StatsLocales)

InitStats ==
  /\ \E run \in StatsRuns :
       /\ hostLocale = run[2]
       /\ players = run[1]
  /\ seed = DefaultSeed
  /\ \/ schedule = <<>>
     \/ \E f \in [StatsCells -> StatsScores] \cup [DuoRunCells -> DuoRunScores] :
          schedule = Scored(BaseSchedule[hostLocale], f)
  /\ error = Null
  /\ rankings = <<>>
  /\ dmGames = <<>>
  /\ dmSum = NoSummary
  /\ ranked = FALSE
  /\ rngState = ToWord(0)
  /\ lastGen = NoGen
  /\ lastEdit = NoEdit
  /\ search = NoSearch

\* the rankings, dmGames and dmSum memos (lines 243-251) computed for the
\* schedule and the players
ComputeRankings ==
  /\ ~ranked
  /\ rankings' = Rankings(schedule, players, hostLocale)
  /\ dmGames' = DmGames(schedule, players)
  /\ dmSum' = DmSum(schedule, players)
  /\ ranked' = TRUE
  /\ UNCHANGED <<players, seed, schedule, error, rngState, lastGen, lastEdit, search, hostLocale>>

NextStats == ComputeRankings

SpecStats == InitStats /\ [][NextStats]_vars

----------------------------------------------------------------------------
(* The score fields on their own: the schedule is the one generated for the *)
(* default players, in which matches of StatsCells already carry scores     *)
(* entered before, and the score fields of ScoreCells are edited.           *)

EditScores == {NoScore, <<15, 9>>, <<24, 0>>}

InitEdit ==
  /\ hostLocale \in AppLocales
  /\ players = DefaultPlayers
  /\ seed = DefaultSeed
  /\ \E f \in [StatsCells -> EditScores] : schedule = Scored(BaseSchedule[hostLocale], f)
  /\ error = Null
  /\ rankings = Rankings(schedule, players, hostLocale)
  /\ dmGames = DmGames(schedule, players)
  /\ dmSum = DmSum(schedule, players)
  /\ ranked = TRUE
  /\ rngState = ToWord(0)
  /\ lastGen = NoGen
  /\ lastEdit = NoEdit
  /\ search = NoSearch

NextEdit == onScoreChange

SpecEdit == InitEdit /\ [][NextEdit]_vars

----------------------------------------------------------------------------
(* The balancing search on its own, call by call: the ids are those of the  *)
(* players besides the Duo of an input of generateSchedule, and search.m is *)
(* the record of the calls of backtrack in progress.                        *)

\* the player lists of GenRuns that reach the search, with the host locale
SearchPlayers ==
  {r \in {<<run[1][1], run[2]>> : run \in GenRuns} :
     /\ Len(r[1]) = 12
     /\ DuoCountOk(DmIds(r[1]))
     /\ Len(Others(r[1], DmIds(r[1])[1], DmIds(r[1])[2])) = 10}

\* buildBalancedDmOpponents(others) at the call backtrack(0) (lines 43-47, 83)
InitSearch ==
  /\ \E r \in SearchPlayers :
       /\ hostLocale = r[2]
       /\ players = r[1]
  /\ seed = DefaultSeed
  /\ schedule = <<>>
  /\ error = Null
  /\ rankings = <<>>
  /\ dmGames = <<>>
  /\ dmSum = NoSummary
  /\ ranked = TRUE
  /\ rngState = ToWord(0)
  /\ lastGen = NoGen
  /\ lastEdit = NoEdit
  /\ \E ids \in {Others(players, DmIds(players)[1], DmIds(players)[2])} :
       search = [ids |-> ids,
                 m |-> Enter(ids, 0, [id \in Range(ids) |-> 0], {}, <<>>, <<>>, hostLocale)]

\* the innermost call of backtrack runs up to its next call or return
SearchStep ==
  /\ search # NoSearch
  /\ ~search.m.done
  /\ search' = [search EXCEPT !.m = Step(search.ids, search.m, hostLocale)]
  /\ UNCHANGED <<players, seed, schedule, error, rankings, dmGames, dmSum, ranked,
                 rngState, lastGen, lastEdit, hostLocale>>

NextSearch == SearchStep

SpecSearch == InitSearch /\ [][NextSearch]_vars

----------------------------------------------------------------------------
(* Properties of generateSchedule, stated on the record of its last call *)

Called == lastGen.n > 0
Returned == Called /\ lastGen.ok

IdsOf(ps) == {ps[i].id : i \in DOMAIN ps}

\* positions of the players whose name matches the Duo name rule
DuoPositions(ps) == {i \in DOMAIN ps : IsDuoName(ps[i].name)}
DuoIds(ps) == {ps[i].id : i \in DuoPositions(ps)}

\* 12 players with pairwise distinct ids, exactly two matching the Duo rule
ValidInput(ps) ==
  /\ Len(ps) = 12
  /\ \A i, j \in DOMAIN ps : ps[i].id = ps[j].id => i = j
  /\ Cardinality(DuoPositions(ps)) = 2

\* id is on team2 of the court-7 match of the round
OpposesDuo(round, id) ==
  \E k \in DOMAIN round.matches :
    /\ round.matches[k].court = 7
    /\ id \in {round.matches[k].team2.a, round.matches[k].team2.b}

\* the player in slot t of a match: team1.a, team1.b, team2.a, team2.b
PlayerAt(m, t) ==
  CASE t = 1 -> m.team1.a [] t = 2 -> m.team1.b [] t = 3 -> m.team2.a [] t = 4 -> m.team2.b

SlotsOf(round, id) ==
  {s \in (DOMAIN round.matches) \X (1..4) : PlayerAt(round.matches[s[1]], s[2]) = id}

\* C1: on a valid input the returned schedule has 15 rounds and each of the
\* 10 non-Duo players is on team2 of the court-7 match in exactly 3 of them.
C1_EachOpposesDuoThrice ==
  (Returned /\ ValidInput(lastGen.players)) =>
    /\ Len(lastGen.rounds) = 15
    /\ Cardinality(IdsOf(lastGen.players) \ DuoIds(lastGen.players)) = 10
    /\ \A id \in IdsOf(lastGen.players) \ DuoIds(lastGen.players) :
         Cardinality({r \in DOMAIN lastGen.rounds : OpposesDuo(lastGen.rounds[r], id)}) = 3

\* a schedule was returned for a valid input in which the player at position 3
\* opposes the Duo
C1_Witness ==
  /\ Returned
  /\ ValidInput(lastGen.players)
  /\ \E r \in DOMAIN lastGen.rounds : OpposesDuo(lastGen.rounds[r], lastGen.players[3].id)

\* C2: on a valid input every round built holds each of the 12 input ids in
\* exactly one of the 12 slots of its three matches, and the call never ends
\* with 'Internal round construction error'.
C2_EveryRoundHoldsAllTwelve ==
  (Called /\ ValidInput(lastGen.players)) =>
    /\ \A r \in 0..(NumRounds - 1) : lastGen.error # ErrRound(r)
    /\ \A r \in DOMAIN lastGen.rounds :
         /\ Len(lastGen.rounds[r].matches) = 3
         /\ \A id \in IdsOf(lastGen.players) :
              Cardinality(SlotsOf(lastGen.rounds[r], id)) = 1

\* a schedule of 15 rounds was returned for a valid input with a negative seed
C2_Witness ==
  /\ Returned
  /\ ValidInput(lastGen.players)
  /\ lastGen.seed < 0
  /\ Len(lastGen.rounds) = 15

\* C3: two calls of generateSchedule with the same player list and the same
\* seed have the same outcome: the same rounds returned (the same Duo-opponent
\* pair in every round, the same teams on courts 8 and 9, the same round
\* order), or the same error thrown.
C3_SameInputSameSchedule ==
  [][(/\ lastGen.n > 0
      /\ lastGen'.n = lastGen.n + 1
      /\ lastGen'.players = lastGen.players
      /\ lastGen'.seed = lastGen.seed)
     => (/\ lastGen'.ok = lastGen.ok
         /\ lastGen'.rounds = lastGen.rounds
         /\ lastGen'.error = lastGen.error)]_vars

\* the balanced pairs computed for the others of a player list
BalancedFor(ps, loc) ==
  buildBalancedDmOpponents(Others(ps, DmIds(ps)[1], DmIds(ps)[2]), loc)

ShapeOk(rounds, ps, pairs) ==
  /\ Len(rounds) = 15
  /\ \A r \in DOMAIN rounds :
       /\ rounds[r].round = r
       /\ Len(rounds[r].matches) = 3
       /\ rounds[r].matches[1].court = 7
       /\ rounds[r].matches[2].court = 8
       /\ rounds[r].matches[3].court = 9
       /\ {rounds[r].matches[1].team1.a, rounds[r].matches[1].team1.b} = DuoIds(ps)
       /\ rounds[r].matches[1].team1.a # rounds[r].matches[1].team1.b
       /\ <<rounds[r].matches[1].team2.a, rounds[r].matches[1].team2.b>> = pairs[r]
       /\ \A k \in DOMAIN rounds[r].matches : "score" \notin DOMAIN rounds[r].matches[k]

\* C4: a returned schedule has 15 rounds numbered 1..15 in order, each with
\* three matches on courts 7, 8, 9 in that order; the court-7 match has the
\* two Duo players as team1 and the round's balanced pair as team2; no match
\* has a score.
C4_ScheduleShape ==
  Returned => ShapeOk(lastGen.rounds, lastGen.players, BalancedFor(lastGen.players, hostLocale).res)

\* a schedule was returned whose Duo is not at the first two positions
C4_Witness ==
  /\ Returned
  /\ DuoPositions(lastGen.players) = {5, 9}
  /\ lastGen.rounds[15].round = 15

\* C5: a call with a list of other than 12 players, or with other than 2
\* players matching the Duo name rule, throws and returns no schedule.
C5_BadInputThrows ==
  (Called /\ (Len(lastGen.players) # 12 \/ Cardinality(DuoPositions(lastGen.players)) # 2)) =>
    /\ ~lastGen.ok
    /\ lastGen.error \in {ErrCount, ErrDuo}
    /\ lastGen.rounds = <<>>
    /\ schedule = <<>>

\* a call with 12 players of which three match the Duo name rule has thrown
C5_Witness ==
  /\ Called
  /\ Len(lastGen.players) = 12
  /\ Cardinality(DuoPositions(lastGen.players)) = 3
  /\ ~lastGen.ok

\* the trimmed, lower-cased names of the players matching the Duo name rule
DuoNames(ps) == {lower(ps[i].name) : i \in DuoPositions(ps)}

\* C6: when generateSchedule returns, one Duo player is named Daniel and the
\* other Macho; a list of 12 whose two matching players carry the same name
\* is rejected with 'Two players must be named Daniel and Macho'.
C6_DuoIsDanielAndMacho ==
  /\ Returned => DuoNames(lastGen.players) = {StrDaniel, StrMacho}
  /\ (/\ Called
      /\ Len(lastGen.players) = 12
      /\ Cardinality(DuoPositions(lastGen.players)) = 2
      /\ Cardinality(DuoNames(lastGen.players)) = 1)
     => (~lastGen.ok /\ lastGen.error = ErrDuo)

Filled(b) ==
  /\ b.ok
  /\ Len(b.res) = 15
  /\ \A k \in DOMAIN b.res : Len(b.res[k]) = 2

\* C7: on a valid input the balancing search returns true with the 15 slots
\* filled, and the call never ends with 'Could not balance Daniel & Macho
\* opponents'.
C7_BalanceFound ==
  (Called /\ ValidInput(lastGen.players)) =>
    /\ lastGen.error # ErrBalance
    /\ Filled(BalancedFor(lastGen.players, hostLocale))

\* a call on a valid input whose ids have coinciding pair keys has returned
C7_Witness ==
  /\ Returned
  /\ ValidInput(lastGen.players)
  /\ IdsOf(lastGen.players) = Range(ChainIds)

----------------------------------------------------------------------------
(* Properties of setScoreAuto *)

\* x limited to [0, 24]
Limited(x) == IF x < 0 THEN 0 ELSE IF x > 24 THEN 24 ELSE x

Edited == lastEdit # NoEdit

\* the score of the match of the last call of setScoreAuto
EditedScore == schedule[lastEdit.roundIdx + 1].matches[lastEdit.matchIdx + 1].score

\* C8: after setScoreAuto(roundIdx, matchIdx, value, side) the edited side of
\* the match is value limited to [0, 24] and the other side is 24 - value
\* limited to [0, 24], whatever the score before; side 1 with value 30 on an
\* unscored match gives 24 and 0.
C8_StoredScore ==
  Edited =>
    /\ lastEdit.side = 1 =>
         /\ EditedScore.team1 = Limited(lastEdit.value)
         /\ EditedScore.team2 = Limited(24 - lastEdit.value)
    /\ lastEdit.side = 2 =>
         /\ EditedScore.team2 = Limited(lastEdit.value)
         /\ EditedScore.team1 = Limited(24 - lastEdit.value)
    /\ (lastEdit.side = 1 /\ lastEdit.value = 30 /\ ~lastEdit.scored) =>
         EditedScore = [team1 |-> 24, team2 |-> 0]

\* side 1 of an unscored match was set to 30
C8_Witness ==
  /\ Edited
  /\ lastEdit.side = 1
  /\ lastEdit.value = 30
  /\ ~lastEdit.scored
  /\ EditedScore = [team1 |-> 24, team2 |-> 0]

\* C9: every match of the schedule has no score, or a score with both sides
\* in [0, 24] that sums to 24 and so passes the valid-score filter.
C9_ScoresSumTo24 ==
  \A r \in DOMAIN schedule :
    \A k \in DOMAIN schedule[r].matches :
      "score" \in DOMAIN schedule[r].matches[k] =>
        /\ schedule[r].matches[k].score.team1 \in 0..24
        /\ schedule[r].matches[k].score.team2 \in 0..24
        /\ schedule[r].matches[k].score.team1 + schedule[r].matches[k].score.team2 = 24
        /\ ValidScore(schedule[r].matches[k])

\* a match that had a score was set to a value below 0
C9_Witness ==
  /\ Edited
  /\ lastEdit.scored
  /\ lastEdit.value < 0
  /\ EditedScore.team1 + EditedScore.team2 = 24

----------------------------------------------------------------------------
(* Properties of computeStats *)

\* the (round, match) positions of the matches with id whose score is present
\* and sums to 24
ValidWith(sched, id) ==
  {c \in UNION {{<<r, k>> : k \in DOMAIN sched[r].matches} : r \in DOMAIN sched} :
     /\ \E t \in 1..4 : PlayerAt(sched[c[1]].matches[c[2]], t) = id
     /\ "score" \in DOMAIN sched[c[1]].matches[c[2]]
     /\ sched[c[1]].matches[c[2]].score.team1 + sched[c[1]].matches[c[2]].score.team2 = 24}

\* the score of the team of id in the match m, and of the other team
Own(m, id) == IF id \in {m.team1.a, m.team1.b} THEN m.score.team1 ELSE m.score.team2
Opp(m, id) == IF id \in {m.team1.a, m.team1.b} THEN m.score.team2 ELSE m.score.team1

RECURSIVE SumOwn(_, _, _)
SumOwn(cs, sched, id) ==
  IF cs = {} THEN 0
  ELSE LET c == CHOOSE x \in cs : TRUE
       IN Own(sched[c[1]].matches[c[2]], id) + SumOwn(cs \ {c}, sched, id)

RECURSIVE SumOpp(_, _, _)
SumOpp(cs, sched, id) ==
  IF cs = {} THEN 0
  ELSE LET c == CHOOSE x \in cs : TRUE
       IN Opp(sched[c[1]].matches[c[2]], id) + SumOpp(cs \ {c}, sched, id)

\* the counters of the row of id are the totals over the matches at cs
RowTotals(row, sched, id, cs) ==
  /\ row.played = Cardinality(cs)
  /\ row.won = Cardinality({c \in cs : Own(sched[c[1]].matches[c[2]], id) > Opp(sched[c[1]].matches[c[2]], id)})
  /\ row.lost = Cardinality({c \in cs : Own(sched[c[1]].matches[c[2]], id) < Opp(sched[c[1]].matches[c[2]], id)})
  /\ row.tied = Cardinality({c \in cs : Own(sched[c[1]].matches[c[2]], id) = Opp(sched[c[1]].matches[c[2]], id)})
  /\ row.pointsFor = SumOwn(cs, sched, id)
  /\ row.pointsAgainst = SumOpp(cs, sched, id)

RowsOf(rows, id) == {j \in DOMAIN rows : rows[j].player = id}

\* C10: the rows computed by computeStats are those of the players with a
\* match whose score is present and sums to 24, one row each, and the row's
\* played, won, tied, lost, pointsFor and pointsAgainst are the totals over
\* exactly those matches; a match without score or with another total (10-10)
\* counts for nobody.
C10_OnlyValidScoresCount ==
  ranked =>
    \A id \in IdsOf(players) :
      IF ValidWith(schedule, id) = {}
      THEN RowsOf(rankings, id) = {}
      ELSE /\ Cardinality(RowsOf(rankings, id)) = 1
           /\ \A j \in RowsOf(rankings, id) :
                RowTotals(rankings[j], schedule, id, ValidWith(schedule, id))

\* the statistics were computed for a schedule in which court 7 of round 1 is
\* scored 10-10 and court 7 of round 2 is scored 15-9
C10_Witness ==
  /\ ranked
  /\ schedule # <<>>
  /\ "score" \in DOMAIN schedule[1].matches[1]
  /\ schedule[1].matches[1].score = [team1 |-> 10, team2 |-> 10]
  /\ "score" \in DOMAIN schedule[2].matches[1]
  /\ schedule[2].matches[1].score = [team1 |-> 15, team2 |-> 9]
  /\ Len(rankings) = 4

\* the row a is not after the row b: points-for descending, then wins
\* descending, then differential descending, then name ascending
NotAfter(a, b, loc) ==
  \/ a.pointsFor > b.pointsFor
  \/ /\ a.pointsFor = b.pointsFor
     /\ \/ a.won > b.won
        \/ /\ a.won = b.won
           /\ \/ a.pointsFor - a.pointsAgainst > b.pointsFor - b.pointsAgainst
              \/ /\ a.pointsFor - a.pointsAgainst = b.pointsFor - b.pointsAgainst
                 /\ (a.name = b.name \/ localeCompare(a.name, b.name, loc) < 0)

SameKeys(a, b) ==
  /\ a.pointsFor = b.pointsFor
  /\ a.won = b.won
  /\ a.pointsFor - a.pointsAgainst = b.pointsFor - b.pointsAgainst

\* C11: in the list computed by computeStats every row is not after the rows
\* that follow it under the order points-for descending, wins descending,
\* differential descending, name ascending; the diff of a row is its
\* pointsFor - pointsAgainst, and rows equal on the first three keys stand in
\* ascending name order.
C11_RankingOrder ==
  ranked =>
    /\ \A i \in DOMAIN rankings : rankings[i].diff = rankings[i].pointsFor - rankings[i].pointsAgainst
    /\ \A i, j \in DOMAIN rankings :
         i < j =>
           /\ NotAfter(rankings[i], rankings[j], hostLocale)
           /\ SameKeys(rankings[i], rankings[j]) =>
                localeCompare(rankings[i].name, rankings[j].name, hostLocale) < 0

\* the statistics hold adjacent rows that differ in points-for, rows with
\* equal points-for that differ in wins, and rows equal on the three numbers
\* whose names the host locale orders against the code units and against
\* en-US
C11_Witness ==
  /\ ranked
  /\ \E i, j \in DOMAIN rankings : j = i + 1 /\ rankings[i].pointsFor > rankings[j].pointsFor
  /\ \E i, j \in DOMAIN rankings :
       /\ i < j
       /\ rankings[i].pointsFor = rankings[j].pointsFor
       /\ rankings[i].won > rankings[j].won
  /\ \E i, j \in DOMAIN rankings :
       j = i + 1 /\ SameKeys(rankings[i], rankings[j]) /\ rankings[i].name # rankings[j].name
  /\ \E i, j \in DOMAIN rankings :
       /\ j = i + 1
       /\ SameKeys(rankings[i], rankings[j])
       /\ StrLess(rankings[j].name, rankings[i].name)
       /\ localeCompare(rankings[j].name, rankings[i].name, "en-US") < 0

----------------------------------------------------------------------------
(* Properties of dmSummary and dmStats *)

\* the two ids are both on team1, or both on team2, of the match m
DuoTeam(m, duo) ==
  \/ duo \subseteq {m.team1.a, m.team1.b}
  \/ duo \subseteq {m.team2.a, m.team2.b}

CellsOf(sched) ==
  UNION {{<<r, k>> : k \in DOMAIN sched[r].matches} : r \in DOMAIN sched}

\* the positions of the matches of the Duo, and of those among them whose
\* score is present and sums to 24
DuoCells(sched, duo) ==
  {c \in CellsOf(sched) : DuoTeam(sched[c[1]].matches[c[2]], duo)}

DuoValidCells(sched, duo) ==
  {c \in DuoCells(sched, duo) :
     /\ "score" \in DOMAIN sched[c[1]].matches[c[2]]
     /\ sched[c[1]].matches[c[2]].score.team1 + sched[c[1]].matches[c[2]].score.team2 = 24}

\* the score of the Duo's side and of the other side in its match m
DuoOwn(m, duo) ==
  IF duo \subseteq {m.team1.a, m.team1.b} THEN m.score.team1 ELSE m.score.team2
DuoOther(m, duo) ==
  IF duo \subseteq {m.team1.a, m.team1.b} THEN m.score.team2 ELSE m.score.team1

RECURSIVE DuoTotal(_, _, _)
DuoTotal(cs, sched, duo) ==
  IF cs = {} THEN 0
  ELSE LET c == CHOOSE x \in cs : TRUE
       IN DuoOwn(sched[c[1]].matches[c[2]], duo) + DuoTotal(cs \ {c}, sched, duo)

\* played, won, tied and lost of the summary sum count the matches at cs
DuoCounts(sum, sched, duo, cs) ==
  /\ sum.played = Cardinality(cs)
  /\ sum.won = Cardinality({c \in cs : DuoOwn(sched[c[1]].matches[c[2]], duo) > DuoOther(sched[c[1]].matches[c[2]], duo)})
  /\ sum.tied = Cardinality({c \in cs : DuoOwn(sched[c[1]].matches[c[2]], duo) = DuoOther(sched[c[1]].matches[c[2]], duo)})
  /\ sum.lost = Cardinality({c \in cs : DuoOwn(sched[c[1]].matches[c[2]], duo) < DuoOther(sched[c[1]].matches[c[2]], duo)})

\* d kept within -(bound + 1) .. bound + 1
Within(d, bound) == Max2(-(bound + 1), Min2(bound + 1, d))

\* the double x is p / n to within half a unit in its last place, for
\* integers p >= 0 and n >= 1: with x = M * 2^(x.exp - 52), the integer
\* M * n * 2^x.exp - p * 2^52 is at most n * 2^x.exp / 2 in absolute value.
\* The difference is summed limb by limb; once it is beyond den it stays so.
NearestTo(x, p, n) ==
  IF p = 0 THEN x = Zero
  ELSE LET num == p * 2^(IF x.exp < 0 THEN -x.exp ELSE 0)
           den == n * 2^(IF x.exp > 0 THEN x.exp ELSE 0)
           d[i \in 1..5] == IF i = 1 THEN Within(x.mant[1] * den - num, den)
                            ELSE Within(d[i - 1] * Limb + x.mant[i] * den, den)
       IN /\ x.mant[1] = 1
          /\ 2 * d[5] <= den
          /\ -2 * d[5] <= den

\* only court 7 of round 1 has a score, and it is 15-9
OnlyFirstScored(sched) ==
  /\ sched # <<>>
  /\ \A c \in CellsOf(sched) : "score" \in DOMAIN sched[c[1]].matches[c[2]] <=> c = <<1, 1>>
  /\ sched[1].matches[1].score = [team1 |-> 15, team2 |-> 9]

\* the double 15
Fifteen == [exp |-> 3, mant |-> <<1, 7168, 0, 0, 0>>]

\* C12 as stated: dmSummary counts exactly the matches with both Duo ids on
\* one team and a score that sums to 24, classifies them as won, tied or
\* lost by the Duo's score against the opponents', and avg times played
\* equals the Duo's total points in them, avg being 0 when played is 0.
C12_AvgTimesPlayedIsTotal ==
  (ranked /\ dmSum # NoSummary) =>
    /\ DuoCounts(dmSum, schedule, DuoIds(players), DuoValidCells(schedule, DuoIds(players)))
    /\ dmSum.played = 0 => dmSum.avg = Zero
    /\ Times(dmSum.avg, dmSum.played)
         = Double(DuoTotal(DuoValidCells(schedule, DuoIds(players)), schedule, DuoIds(players)))

\* C12, amended: dmSummary counts exactly the matches with both Duo ids on
\* one team and a score that sums to 24, classifies them as won, tied or
\* lost by the Duo's score against the opponents', and avg is the Duo's total
\* points in them divided by played, rounded to the nearest double (the
\* product avg times played need not give the total back), avg being 0 when
\* played is 0; with only round 1 court 7 scored, 15-9, the summary is
\* played 1, won 1, tied 0, lost 0, avg 15.
C12_DuoSummary ==
  (ranked /\ dmSum # NoSummary) =>
    /\ DuoCounts(dmSum, schedule, DuoIds(players), DuoValidCells(schedule, DuoIds(players)))
    /\ dmSum.played = 0 => dmSum.avg = Zero
    /\ dmSum.played > 0 =>
         NearestTo(dmSum.avg,
                   DuoTotal(DuoValidCells(schedule, DuoIds(players)), schedule, DuoIds(players)),
                   dmSum.played)
    /\ (OnlyFirstScored(schedule) /\ players = DefaultPlayers) =>
         dmSum = [played |-> 1, won |-> 1, tied |-> 0, lost |-> 0, avg |-> Fifteen]

\* the summary was computed for seven scored matches of the Duo with 29
\* points in all
C12_Witness ==
  /\ ranked
  /\ dmSum # NoSummary
  /\ dmSum.played = 7
  /\ dmSum.lost = 7
  /\ DuoTotal(DuoValidCells(schedule, DuoIds(players)), schedule, DuoIds(players)) = 29
  /\ dmSum.avg.exp = 2

\* the entries of the log with the result letter
WithResult(games, letter) == {i \in DOMAIN games : games[i].result = letter}

\* "W", "T", "L"
LetterW == <<87>>
LetterT == <<84>>
LetterL == <<76>>

\* C13: the log of dmStats has one entry per Duo match; the entry of a match
\* whose score is absent or does not sum to 24 carries neither score string
\* nor result letter, and the numbers of W, T and L entries are won, tied and
\* lost of dmSummary on the same schedule.
C13_LogFiltersLikeSummary ==
  (ranked /\ dmSum # NoSummary) =>
    /\ Len(dmGames) = Cardinality(DuoCells(schedule, DuoIds(players)))
    /\ \A i \in DOMAIN dmGames :
         \A c \in DuoCells(schedule, DuoIds(players)) :
           (c[1] = dmGames[i].round /\ c \notin DuoValidCells(schedule, DuoIds(players))) =>
             /\ dmGames[i].score = Undefined
             /\ dmGames[i].result = Undefined
    /\ Cardinality(WithResult(dmGames, LetterW)) = dmSum.won
    /\ Cardinality(WithResult(dmGames, LetterT)) = dmSum.tied
    /\ Cardinality(WithResult(dmGames, LetterL)) = dmSum.lost

----------------------------------------------------------------------------
(* Frame of setScoreAuto *)

\* the schedules a and b have the same rounds, numbers, courts and teams, and
\* the same matches except for the score of the match at the 0-based position
\* (roundIdx, matchIdx)
SameButScoreAt(a, b, roundIdx, matchIdx) ==
  /\ DOMAIN a = DOMAIN b
  /\ \A r \in DOMAIN a :
       /\ DOMAIN a[r] = DOMAIN b[r]
       /\ a[r].round = b[r].round
       /\ DOMAIN a[r].matches = DOMAIN b[r].matches
       /\ \A k \in DOMAIN a[r].matches :
            /\ a[r].matches[k].court = b[r].matches[k].court
            /\ a[r].matches[k].team1 = b[r].matches[k].team1
            /\ a[r].matches[k].team2 = b[r].matches[k].team2
            /\ <<r, k>> # <<roundIdx + 1, matchIdx + 1>> =>
                 a[r].matches[k] = b[r].matches[k]

\* C14: after setScoreAuto(roundIdx, matchIdx, value, side) the schedule is
\* the one before it except for the score of the match at (roundIdx,
\* matchIdx) - round numbers, courts, teams and all other scores are the
\* same - and the objects of the schedule passed to the updater still hold
\* what they held: the previous value is not mutated.
C14_OnlyOneScoreChanges ==
  Edited =>
    /\ SameButScoreAt(schedule, lastEdit.before, lastEdit.roundIdx, lastEdit.matchIdx)
    /\ lastEdit.prev = lastEdit.before

\* a match that had a score was given another one while other matches carry
\* scores, the previous schedule still holding the old score
C14_Witness ==
  /\ Edited
  /\ lastEdit.scored
  /\ \E c \in CellsOf(schedule) :
       /\ c # <<lastEdit.roundIdx + 1, lastEdit.matchIdx + 1>>
       /\ "score" \in DOMAIN schedule[c[1]].matches[c[2]]
  /\ EditedScore # lastEdit.before[lastEdit.roundIdx + 1].matches[lastEdit.matchIdx + 1].score
  /\ lastEdit.prev[lastEdit.roundIdx + 1].matches[lastEdit.matchIdx + 1].score
       = lastEdit.before[lastEdit.roundIdx + 1].matches[lastEdit.matchIdx + 1].score

----------------------------------------------------------------------------
(* Pair avoidance of the balancing search *)

\* the two players opposing the Duo on court 7 of the round
OpponentsOf(round) ==
  UNION {{round.matches[k].team2.a, round.matches[k].team2.b} :
           k \in {j \in DOMAIN round.matches : round.matches[j].court = 7}}

\* C15: in every schedule returned by generateSchedule the pairs opposing
\* the Duo in two different rounds are different unordered pairs.
C15_OpponentPairsDistinct ==
  Returned =>
    \A r1, r2 \in DOMAIN lastGen.rounds :
      r1 # r2 => OpponentsOf(lastGen.rounds[r1]) # OpponentsOf(lastGen.rounds[r2])

\* a schedule of 15 rounds with 15 different opposing pairs was returned for
\* ids whose pair keys coincide
C15_Witness ==
  /\ Returned
  /\ IdsOf(lastGen.players) = Range(ChainIds)
  /\ Cardinality({OpponentsOf(lastGen.rounds[r]) : r \in DOMAIN lastGen.rounds}) = NumRounds
  /\ \A r \in DOMAIN lastGen.rounds : Cardinality(OpponentsOf(lastGen.rounds[r])) = 2

----------------------------------------------------------------------------
(* The feasibility check of the balancing search *)

Searching == search # NoSearch

\* the pairs of pool entries that the loops of the innermost call do not
\* pass over at lines 54, 58 and 60: the tentative assignments of slot k
Tentative ==
  {p \in (DOMAIN search.m.pool) \X (DOMAIN search.m.pool) :
     /\ p[1] < p[2]
     /\ search.m.counts[search.m.pool[p[1]]] < 3
     /\ search.m.counts[search.m.pool[p[2]]] < 3
     /\ pairKey(search.m.pool[p[1]], search.m.pool[p[2]]) \notin search.m.usedPair}

\* the count of id once the pair at the pool positions p is counted
CountWith(p, id) ==
  search.m.counts[id]
    + (IF search.m.pool[p[1]] = id THEN 1 ELSE 0)
    + (IF search.m.pool[p[2]] = id THEN 1 ELSE 0)

\* sum over the ids S of max(0, 3 - count) with the pair at p counted
RECURSIVE NeedWith(_, _)
NeedWith(p, S) ==
  IF S = {} THEN 0
  ELSE LET id == CHOOSE x \in S : TRUE
       IN (IF CountWith(p, id) < 3 THEN 3 - CountWith(p, id) ELSE 0) + NeedWith(p, S \ {id})

\* C16: while buildBalancedDmOpponents searches on 10 distinct ids no count
\* exceeds 3, and for every tentative assignment of slot k the sum over the
\* ids of max(0, 3 - count) equals (15 - (k + 1)) * 2, so that the
\* feasibility check passes; when slot 15 is reached every count is 3.
C16_NeedEqualsRemaining ==
  (Searching /\ Cardinality(Range(search.ids)) = 10 /\ Len(search.ids) = 10) =>
    /\ \A id \in Range(search.ids) : search.m.counts[id] <= 3
    /\ search.m.k < 15 =>
         \A p \in Tentative :
           /\ NeedWith(p, Range(search.ids)) = (15 - (search.m.k + 1)) * 2
           /\ Feasible(search.ids,
                       Chosen(search.m.counts, search.m.pool[p[1]], search.m.pool[p[2]]),
                       search.m.k)
    /\ search.m.k = 15 => \A id \in Range(search.ids) : search.m.counts[id] = 3

\* the search has filled 7 slots and has several tentative assignments for
\* the next
C16_Witness ==
  /\ Searching
  /\ search.m.k = 7
  /\ Cardinality(Tentative) > 1
  /\ ~search.m.done

====
